---- MODULE Spec2Model ----
(***************************************************************************)
(* Blastengine mailer plugin: the HTTP client (provider/http_client.py),   *)
(* the validators (tools/validators.py) and the two sending tools          *)
(* (tools/send_transactional_email.py, tools/send_bulk_email.py).          *)
(*                                                                         *)
(* Text is modelled as a sequence of tokens.  A token [w, n, k] is a run   *)
(* of n characters spelled w, of kind                                      *)
(*   "alnum"  only characters of [A-Za-z0-9];                              *)
(*   "b64"    characters of [A-Za-z0-9+/=], at least one of +/= and no     *)
(*            run of 32 or more alphanumerics inside;                      *)
(*   "space"  whitespace;                                                  *)
(*   "other"  anything else, delimited so that it joins no neighbouring    *)
(*            alphanumeric run.                                            *)
(* Neighbouring tokens of the texts used here never merge into one run.    *)
(***************************************************************************)
EXTENDS Integers, Sequences, FiniteSets, TLC

VARIABLES
    pc,          \* position of the running invocation
    caller,      \* who invoked the client: a tool or a direct client call
    op,          \* the client operation in progress
    max_retries, \* BlastengineHttpClient.max_retries of the client in use
    attempt,     \* loop index of _request
    calls,       \* the logical client calls issued so far, in order
    replies,     \* what each HTTP request of the current call got back
    sleeps,      \* time.sleep() delays of the current call, in order
    handles,     \* per attachment: "unopened", "open" or "closed"
    outcome,     \* result of the last finished client operation
    results,     \* result of each finished call of calls, in order
    log,         \* logger.error records written by the client
    inv,         \* the running tool invocation: inputs kept and its result
    client,      \* the client in use: login_id, api_key and _bearer_token
    sent,        \* the headers of every HTTP request sent so far, in order
    arg,         \* input of the function under test (function specifications)
    ret          \* its result

vars == <<pc, caller, op, max_retries, attempt, calls, replies, sleeps,
          handles, outcome, results, log, inv, client, sent, arg, ret>>

----------------------------------------------------------------------------
(* Program constants *)

_MAX_LOG_BODY_LENGTH == 200
_MAX_RECIPIENTS_PER_UPDATE == 50
_RETRY_STATUSES == {408, 425, 429, 500, 502, 503, 504}
BearerMinRun == 20
KeyMinRun == 32
RawTextLimit == 500
ErrorListLimit == 3
ErrorPartLimit == 5
DefaultMaxRetries == 2

----------------------------------------------------------------------------
(* Text *)

Tok(w, n, k) == [w |-> w, n |-> n, k |-> k]

Sep(w, n) == <<Tok(w, n, "other")>>

Word(w, n) == <<Tok(w, n, "alnum")>>

RECURSIVE TextLen(_)
TextLen(t) == IF t = <<>> THEN 0 ELSE Head(t).n + TextLen(Tail(t))

\* text[:k]
RECURSIVE Take(_, _)
Take(t, k) ==
    IF t = <<>> \/ k <= 0 THEN <<>>
    ELSE IF Head(t).n <= k THEN <<Head(t)>> \o Take(Tail(t), k - Head(t).n)
    ELSE <<[Head(t) EXCEPT !.n = k]>>

\* seq[:k]
Prefix(s, k) == SubSeq(s, 1, IF Len(s) < k THEN Len(s) ELSE k)

\* sep.join(parts)
RECURSIVE Join(_, _)
Join(parts, sep) ==
    IF parts = <<>> THEN <<>>
    ELSE IF Len(parts) = 1 THEN parts[1]
    ELSE parts[1] \o sep \o Join(Tail(parts), sep)

\* The spelling re.sub leaves of an alphanumeric run that ends in "bearer" in
\* any case (the pattern has no word boundary), "" for a run that does not
BearerSpelling(w) ==
    CASE w \in {"Bearer", "bearer", "BEARER"} -> "Bearer"
      [] w \in {"k34Bearer", "k34bearer"} -> "k34Bearer"
      [] OTHER -> ""

IsBearerWord(tok) == tok.k = "alnum" /\ BearerSpelling(tok.w) # ""

\* re.sub(r'Bearer\s+[A-Za-z0-9+/=]{20,}', 'Bearer ***', text, flags=re.IGNORECASE)
RECURSIVE MaskBearer(_)
MaskBearer(t) ==
    IF t = <<>> THEN <<>>
    ELSE IF /\ Len(t) >= 3
            /\ IsBearerWord(t[1])
            /\ t[2].k = "space"
            /\ t[3].k \in {"alnum", "b64"}
            /\ t[3].n >= BearerMinRun
         THEN Word(BearerSpelling(t[1].w), t[1].n) \o <<Tok(" ", 1, "space")>> \o Sep("***", 3)
                  \o MaskBearer(SubSeq(t, 4, Len(t)))
    ELSE <<Head(t)>> \o MaskBearer(Tail(t))

\* a substitution that stops after the first match
MaskKeysFirstOnly(t) ==
    LET long == {i \in 1..Len(t) : t[i].k = "alnum" /\ t[i].n >= KeyMinRun}
    IN  [i \in 1..Len(t) |->
            IF i \in long /\ \A j \in long : i <= j THEN Tok("***", 3, "other") ELSE t[i]]

\* re.sub(r'[A-Za-z0-9]{32,}', '***', text)
MaskKeys(t) ==
    [i \in 1..Len(t) |->
        IF t[i].k = "alnum" /\ t[i].n >= KeyMinRun THEN Tok("***", 3, "other") ELSE t[i]]

Truncate(t) ==
    IF TextLen(t) > _MAX_LOG_BODY_LENGTH
    THEN Take(t, _MAX_LOG_BODY_LENGTH) \o Sep("... (truncated)", 15)
    ELSE t

_sanitize_for_log(text) ==
    IF text = <<>> THEN text ELSE Truncate(MaskKeys(MaskBearer(text)))

----------------------------------------------------------------------------
(* JSON values, as response.json() returns them *)

JV(t, s, n, items) == [t |-> t, s |-> s, n |-> n, items |-> items]

None == JV("null", <<>>, 0, <<>>)
Absent == JV("absent", <<>>, 0, <<>>)
JStr(s) == JV("str", s, 0, <<>>)
JInt(n) == JV("int", <<>>, n, <<>>)
JList(items) == JV("list", <<>>, 0, items)
\* a nested object: items is a sequence of [k |-> key text, v |-> value]
JDict(items) == JV("dict", <<>>, 0, items)
Item(k, v) == [k |-> k, v |-> v]

\* bool(v)
Truthy(v) ==
    CASE v.t = "str" -> v.s # <<>>
      [] v.t = "int" -> v.n # 0
      [] v.t \in {"list", "dict"} -> v.items # <<>>
      [] OTHER -> FALSE

\* a or b
PyOr(a, b) == IF Truthy(a) THEN a ELSE b

Digits == <<"0", "1", "2", "3", "4", "5", "6", "7", "8", "9">>

RECURSIVE Str(_)
RECURSIVE Repr(_)
RECURSIVE ReprItems(_)
\* str(v)
Str(v) ==
    CASE v.t = "str" -> v.s
      [] v.t = "int" -> Word(Digits[v.n + 1], 1)
      [] v.t = "list" -> Sep("[", 1) \o ReprItems(v.items) \o Sep("]", 1)
      [] v.t = "dict" -> Sep("{...}", 5)
      [] OTHER -> Word("None", 4)
Repr(v) == IF v.t = "str" THEN Sep("'", 1) \o v.s \o Sep("'", 1) ELSE Str(v)
ReprItems(items) ==
    IF items = <<>> THEN <<>>
    ELSE IF Len(items) = 1 THEN Repr(items[1])
    ELSE Repr(items[1]) \o Sep(", ", 2) \o ReprItems(Tail(items))

\* f"{key}: {value}"
KeyValue(key, value) == key \o Sep(": ", 2) \o Str(value)

----------------------------------------------------------------------------
(* Responses *)

Keys == {"delivery_id", "deliveryId", "id",
         "error_messages", "message", "error", "error_message", "errors"}

NoFields == [k \in Keys |-> Absent]

JObj(f) == [t |-> "obj", s |-> <<>>, n |-> 0, items |-> <<>>, f |-> f]

\* data.get(key)
Get(data, key) == IF data.f[key].t = "absent" THEN None ELSE data.f[key]

KeyOrder == <<"delivery_id", "deliveryId", "id",
              "error_messages", "message", "error", "error_message", "errors">>

KeyLen(k) == CASE k = "delivery_id" -> 13 [] k = "deliveryId" -> 12 [] k = "id" -> 4
               [] k = "error_messages" -> 16 [] k = "message" -> 9 [] k = "error" -> 7
               [] k = "error_message" -> 15 [] OTHER -> 8

RECURSIVE DumpsItems(_)
RECURSIVE DumpsValue(_)
DumpsValue(v) ==
    CASE v.t = "str" -> Sep("\"", 1) \o v.s \o Sep("\"", 1)
      [] v.t = "int" -> Word(Digits[v.n + 1], 1)
      [] v.t = "list" -> Sep("[", 1) \o DumpsItems(v.items) \o Sep("]", 1)
      [] v.t = "dict" -> Sep("{...}", 5)
      [] OTHER -> Word("null", 4)
DumpsItems(items) ==
    IF items = <<>> THEN <<>>
    ELSE IF Len(items) = 1 THEN DumpsValue(items[1])
    ELSE DumpsValue(items[1]) \o Sep(", ", 2) \o DumpsItems(Tail(items))

RECURSIVE DumpsFields(_, _)
DumpsFields(f, i) ==
    IF i > Len(KeyOrder) THEN <<>>
    ELSE IF f[KeyOrder[i]].t = "absent" THEN DumpsFields(f, i + 1)
    ELSE <<Sep(KeyOrder[i], KeyLen(KeyOrder[i])) \o Sep(": ", 2) \o DumpsValue(f[KeyOrder[i]])>>
             \o DumpsFields(f, i + 1)

\* json.dumps(data, ensure_ascii=False)
Dumps(data) ==
    IF data.t = "obj"
    THEN Sep("{", 1) \o Join(DumpsFields(data.f, 1), Sep(", ", 2)) \o Sep("}", 1)
    ELSE DumpsValue(data)

\* A response: status_code, text, and json() (json_ok = FALSE: json() raises ValueError)
Response(status, json_ok, data, text) ==
    [status_code |-> status, json_ok |-> json_ok, data |-> data, text |-> text]

JsonResponse(status, data) == Response(status, TRUE, data, Dumps(data))

TextResponse(status, text) == Response(status, FALSE, None, text)

----------------------------------------------------------------------------
(* Outcomes of a client operation *)

\* message: the fixed template, the status it shows, and the remote text
\* placed in it (parts, joined by sep); via names the return statement taken.
Message(tmpl, status, via, sep, parts) ==
    [tmpl |-> tmpl, status |-> status, via |-> via, sep |-> sep, parts |-> parts]

NoMessage == Message("", <<>>, "", <<>>, <<>>)

NoOutcome ==
    [kind |-> "none", exc |-> "", status_code |-> <<>>, message |-> NoMessage,
     body |-> <<>>, value |-> <<>>]

Returned(value) == [NoOutcome EXCEPT !.kind = "returned", !.value = value]

\* raise BlastengineHttpError(status_code, message, body)
BlastengineHttpError(status_code, message, body) ==
    [NoOutcome EXCEPT !.kind = "raised", !.exc = "BlastengineHttpError",
                      !.status_code = status_code, !.message = message, !.body = body]

Raised(exc) == [NoOutcome EXCEPT !.kind = "raised", !.exc = exc]

----------------------------------------------------------------------------
(* BlastengineHttpClient._extract_delivery_id *)

\* the fixed message of line 374 (response is not JSON)
MsgNotJson == Message("response_not_json", <<>>, "", <<>>, <<>>)

\* the fixed message of line 385 (response holds no delivery_id)
MsgNoDeliveryId == Message("response_without_delivery_id", <<>>, "", <<>>, <<>>)

\* a selection in the opposite key order
PickIdLastWins(data) ==
    PyOr(Get(data, "id"), PyOr(Get(data, "deliveryId"), Get(data, "delivery_id")))

\* data.get("delivery_id") or data.get("deliveryId") or data.get("id")
PickDeliveryId(data) ==
    PyOr(Get(data, "delivery_id"), PyOr(Get(data, "deliveryId"), Get(data, "id")))

_extract_delivery_id(response) ==
    IF ~response.json_ok
    THEN BlastengineHttpError(<<response.status_code>>, MsgNotJson,
                              _sanitize_for_log(response.text))
    ELSE IF response.data.t # "obj"
    THEN Raised("AttributeError")    \* data.get on a list, string, number or null
    ELSE LET delivery_id == PickDeliveryId(response.data)
         IN  IF ~Truthy(delivery_id)
             THEN BlastengineHttpError(<<response.status_code>>, MsgNoDeliveryId,
                                       _sanitize_for_log(Dumps(response.data)))
             ELSE Returned(Str(delivery_id))

----------------------------------------------------------------------------
(* BlastengineHttpClient._extract_error_message *)

ApiError(status, via, sep, parts) ==
    Message("api_error", <<status>>, via, sep, parts)

\* all_errors of the error_messages branch
RECURSIVE AllErrors(_)
AllErrors(items) ==
    IF items = <<>> THEN <<>>
    ELSE LET key == Head(items).k
             value == Head(items).v
             here == IF value.t = "list"
                     THEN [i \in 1..Len(Prefix(value.items, ErrorListLimit)) |->
                              KeyValue(key, value.items[i])]
                     ELSE IF value.t = "str" THEN <<KeyValue(key, value)>>
                     ELSE <<>>
         IN  here \o AllErrors(Tail(items))

\* error_parts of the nested-object branch
RECURSIVE ErrorParts(_)
ErrorParts(items) ==
    IF items = <<>> THEN <<>>
    ELSE (IF Head(items).v.t \in {"str", "list"}
          THEN <<KeyValue(Head(items).k, Head(items).v)>> ELSE <<>>)
         \o ErrorParts(Tail(items))

SanitizeEach(texts) == [i \in 1..Len(texts) |-> _sanitize_for_log(texts[i])]

\* a selection in the opposite key order
PickMessageErrorsFirst(data) ==
    PyOr(Get(data, "errors"),
         PyOr(Get(data, "error_message"), PyOr(Get(data, "error"), Get(data, "message"))))

\* data.get("message") or data.get("error") or data.get("error_message") or data.get("errors")
PickMessage(data) ==
    PyOr(Get(data, "message"),
         PyOr(Get(data, "error"), PyOr(Get(data, "error_message"), Get(data, "errors"))))

\* a fallback that passes the raw text on as it is
RawFallbackUnsanitized(response) ==
    IF response.text # <<>>
    THEN ApiError(response.status_code, "raw", <<>>, <<Take(response.text, RawTextLimit)>>)
    ELSE ApiError(response.status_code, "status_only", <<>>, <<>>)

\* a fallback that sanitises the whole text
RawFallbackWholeText(response) ==
    IF response.text # <<>>
    THEN ApiError(response.status_code, "raw", <<>>, <<_sanitize_for_log(response.text)>>)
    ELSE ApiError(response.status_code, "status_only", <<>>, <<>>)

\* response.text[:500] sanitised, or the status alone when response.text is empty
RawFallback(response) ==
    IF response.text # <<>>
    THEN ApiError(response.status_code, "raw", <<>>,
                  <<_sanitize_for_log(Take(response.text, RawTextLimit))>>)
    ELSE ApiError(response.status_code, "status_only", <<>>, <<>>)

_extract_error_message(response) ==
    IF ~(response.json_ok /\ response.data.t = "obj") THEN RawFallback(response)
    ELSE
    LET data == response.data
        error_messages == Get(data, "error_messages")
        all_errors == IF error_messages.t = "dict" THEN AllErrors(error_messages.items)
                      ELSE <<>>
        message == PickMessage(data)
        error_parts == IF message.t = "dict"
                       THEN ErrorParts(Prefix(message.items, ErrorPartLimit)) ELSE <<>>
    IN  IF all_errors # <<>>
        THEN ApiError(response.status_code, "map", Sep("; ", 2),
                      SanitizeEach(Prefix(all_errors, ErrorPartLimit)))
        ELSE IF message.t = "str"
        THEN ApiError(response.status_code, "string", <<>>, <<_sanitize_for_log(message.s)>>)
        ELSE IF message.t = "list"
        THEN ApiError(response.status_code, "list", Sep(", ", 2),
                      SanitizeEach([i \in 1..Len(Prefix(message.items, ErrorListLimit)) |->
                                       Str(message.items[i])]))
        ELSE IF error_parts # <<>>
        THEN ApiError(response.status_code, "object", Sep("; ", 2), SanitizeEach(error_parts))
        ELSE RawFallback(response)

----------------------------------------------------------------------------
(* Sample remote texts and bodies *)

Secret40 == Word("k40", 40)

TxtShort == Word("oops", 4)

TxtSecret == Word("key", 3) \o Sep("=", 1) \o Secret40

TxtBearer == Word("Bearer", 6) \o <<Tok(" ", 1, "space"), Tok("dG9r+/==", 24, "b64")>>

\* n tokens, alternately a 30-character word and a blank: no maskable run
Chatter(n) == [i \in 1..n |-> IF i % 2 = 1 THEN Tok("w30", 30, "alnum")
                                           ELSE Tok(" ", 1, "space")]

TxtLong == Chatter(16)

TxtHuge == Chatter(40) \o Sep("=", 1) \o Secret40

\* n secrets, each followed by "=": n * 41 characters
Secrets(n) == [i \in 1..(2 * n) |-> IF i % 2 = 1 THEN Secret40[1] ELSE Tok("=", 1, "other")]

TxtSecrets == Secrets(14)

\* Texts with a secret in them: what comes before the secret (nothing, or chatter
\* ending 31, 186 or 217 characters in), what introduces it, the secret (a run of
\* 40 or of 64 alphanumerics, or one of 40 that ends in "Bearer" and is followed
\* by a base64 run) and what follows it
SecretPrefixes == {<<>>, Chatter(2), Chatter(12), Chatter(14)}

SecretLeads ==
    {<<>>,
     Word("key", 3) \o Sep("=", 1),
     Sep("'", 1),
     Word("Bearer", 6) \o <<Tok(" ", 1, "space")>>,
     Word("bearer", 6) \o <<Tok("  ", 2, "space")>>}

SecretRuns ==
    {Secret40,
     Word("k64", 64),
     Word("k34bearer", 40) \o <<Tok(" ", 1, "space"), Tok("dG9r+/==", 24, "b64")>>}

SecretTails == {<<>>, Sep("=", 1) \o Secret40, Sep("=", 1) \o Chatter(4)}

SecretTexts ==
    {a \o b \o c \o d : a \in SecretPrefixes, b \in SecretLeads, c \in SecretRuns,
                        d \in SecretTails}

SuccessStatuses == {200, 204}

IdValues1 == {Absent, None, JInt(0), JStr(<<>>), JStr(Word("D1", 2)), JInt(7)}
IdValues2 == {Absent, JStr(<<>>), JStr(Word("D2", 2)), JInt(8)}
IdValues3 == {Absent, JInt(0), JStr(Word("D3", 2)), JInt(9), JStr(Secret40)}

WithIds(d1, d2, d3) ==
    JObj([NoFields EXCEPT !["delivery_id"] = d1, !["deliveryId"] = d2, !["id"] = d3])

NonObjectJson == {None, JList(<<>>), JList(<<JInt(1)>>), JStr(Word("ok", 2)), JInt(1)}

NonJsonTexts == {<<>>, TxtShort, TxtSecret, TxtLong, TxtBearer}

IdResponses ==
    {JsonResponse(st, WithIds(d1, d2, d3)) :
        st \in SuccessStatuses, d1 \in IdValues1, d2 \in IdValues2, d3 \in IdValues3}
    \cup {JsonResponse(st, d) : st \in SuccessStatuses, d \in NonObjectJson}
    \cup {TextResponse(st, t) : st \in SuccessStatuses, t \in NonJsonTexts}

ErrMapValues ==
    {Absent,
     JStr(Word("plain", 5)),
     JDict(<<>>),
     JDict(<<Item(Word("main", 4), JInt(5))>>),
     JDict(<<Item(Word("main", 4), JList(<<JStr(Word("m1", 2)), JStr(Secret40),
                                          JStr(Word("m3", 2)), JStr(Word("m4", 2))>>)),
             Item(Word("to", 2), JStr(Word("bad", 3)))>>)}
ErrMessageValues ==
    {Absent, JStr(<<>>), JStr(Word("msg", 3)), JStr(TxtSecret), JInt(5),
     JList(<<JStr(Word("l1", 2))>>),
     JDict(<<Item(Word("f", 1), JStr(Word("v", 1)))>>),
     JDict(<<Item(Word("f", 1), JInt(5))>>)}
ErrErrorValues == {Absent, JStr(Word("err", 3)), JList(<<JStr(Word("e1", 2))>>)}
ErrErrorMessageValues == {Absent, JStr(Word("emsg", 4))}
ErrErrorsValues ==
    {Absent, JList(<<>>), JStr(Word("errs", 4)),
     JList(<<JStr(Word("a", 1)), JInt(2), JStr(TxtLong), JStr(Word("d", 1))>>),
     JDict(<<Item(Word("field", 5), JList(<<JStr(Word("x", 1))>>)),
             Item(Word("n", 1), JInt(3))>>)}

WithErrors(em, m, e, emsg, errs) ==
    JObj([NoFields EXCEPT !["error_messages"] = em, !["message"] = m, !["error"] = e,
                          !["error_message"] = emsg, !["errors"] = errs])

ErrorStatuses == {400, 503}

ErrorResponses ==
    {JsonResponse(st, WithErrors(em, m, e, emsg, errs)) :
        st \in ErrorStatuses, em \in ErrMapValues, m \in ErrMessageValues,
        e \in ErrErrorValues, emsg \in ErrErrorMessageValues, errs \in ErrErrorsValues}
    \cup {JsonResponse(st, d) : st \in ErrorStatuses, d \in NonObjectJson}
    \cup {TextResponse(st, t) : st \in ErrorStatuses,
                                 t \in NonJsonTexts \cup {TxtHuge, TxtSecrets}}

----------------------------------------------------------------------------
(* Strings of characters, as the tools and validators handle them *)

IsSpace(c) == c \in {" ", "\n", "\t"}

\* the elements of s at the positions idx, in their order in s
Pick(s, idx) ==
    [k \in 1..Cardinality(idx) |->
        s[CHOOSE i \in idx : Cardinality({j \in idx : j < i}) = k - 1]]

\* s.strip(): from the first to the last character that is not whitespace
Strip(s) ==
    LET kept == {i \in 1..Len(s) : ~IsSpace(s[i])}
    IN  IF kept = {} THEN <<>>
        ELSE SubSeq(s, CHOOSE i \in kept : \A j \in kept : i <= j,
                       CHOOSE i \in kept : \A j \in kept : j <= i)

Contains(s, c) == \E i \in 1..Len(s) : s[i] = c

\* s.count(c)
Count(s, c) == Cardinality({i \in 1..Len(s) : s[i] = c})

UpperCase == <<"A", "B", "C", "D", "E", "F", "G", "H", "I", "J", "K", "L", "M",
               "N", "O", "P", "Q", "R", "S", "T", "U", "V", "W", "X", "Y", "Z">>
LowerCase == <<"a", "b", "c", "d", "e", "f", "g", "h", "i", "j", "k", "l", "m",
               "n", "o", "p", "q", "r", "s", "t", "u", "v", "w", "x", "y", "z">>

\* s.lower()
Lower(s) ==
    [i \in 1..Len(s) |->
        IF \E j \in 1..26 : UpperCase[j] = s[i]
        THEN LowerCase[CHOOSE j \in 1..26 : UpperCase[j] = s[i]]
        ELSE s[i]]

\* text.replace("\n", ",").split(","): the pieces between neighbouring separators
Split(s) ==
    LET cuts == <<0>> \o Pick([i \in 1..Len(s) |-> i],
                              {i \in 1..Len(s) : s[i] \in {",", "\n"}})
                \o <<Len(s) + 1>>
    IN  [k \in 1..(Len(cuts) - 1) |-> SubSeq(s, cuts[k] + 1, cuts[k + 1] - 1)]

\* the stripped segments that are not empty
NonEmptyStripped(segments) ==
    SelectSeq([i \in 1..Len(segments) |-> Strip(segments[i])], LAMBDA x : x # <<>>)

----------------------------------------------------------------------------
(* Attachments and the multipart body: _build_multipart *)

\* A resolved file: name and extension of its path, size on disk, and whether
\* open(path, "rb") succeeds when the request is built.
File(name, ext, size, readable) ==
    [name |-> name, ext |-> ext, size |-> size, readable |-> readable]

\* mimetypes.guess_type(path.name)[0] or "application/octet-stream"
MimeType(ext) ==
    CASE Lower(ext) = <<".", "p", "d", "f">> -> "application/pdf"
      [] Lower(ext) = <<".", "t", "x", "t">> -> "text/plain"
      [] OTHER -> "application/octet-stream"

Part(field, filename, mime) == [field |-> field, filename |-> filename, mime |-> mime]

_JSON_FILENAME == "payload.json"

\* index of the first attachment that cannot be opened, 0 when all can
RECURSIVE FirstUnreadable(_, _)
FirstUnreadable(attachments, i) ==
    IF i > Len(attachments) THEN 0
    ELSE IF ~attachments[i].readable THEN i
    ELSE FirstUnreadable(attachments, i + 1)

\* ok: all handles opened, files is the multipart list; otherwise open() raised
\* at attachment `bad` and the except branch closed the handles opened before it.
_build_multipart(attachments) ==
    LET bad == FirstUnreadable(attachments, 1)
    IN  IF bad = 0
        THEN [ok |-> TRUE,
              files |-> <<Part("data", _JSON_FILENAME, "application/json")>> \o
                        [i \in 1..Len(attachments) |->
                            Part("file", attachments[i].name, MimeType(attachments[i].ext))],
              handles |-> [i \in 1..Len(attachments) |-> "open"]]
        ELSE [ok |-> FALSE,
              files |-> <<>>,
              handles |-> [i \in 1..Len(attachments) |->
                              IF i < bad THEN "closed" ELSE "unopened"]]

----------------------------------------------------------------------------
(* The HTTP requests of the client operations *)

Request(method, path, id, suffix, body) ==
    [method |-> method, path |-> path, id |-> id, suffix |-> suffix, body |-> body]

\* The body of a request: json= or files= (kind), whether it carries the payload,
\* the multipart entries, the "to" list, the "email" and the "reservation_time"
\* (<<>> when the body has no such key)
Body(kind, payload, files, to, email, reservation_time) ==
    [kind |-> kind, payload |-> payload, files |-> files, to |-> to, email |-> email,
     reservation_time |-> reservation_time]

\* _request_with_optional_files: JSON without attachments, multipart with
\* a client that sends the payload as JSON whatever the attachments
RequestAlwaysJson(method, path, attachments) ==
    [ok |-> TRUE,
     request |-> Request(method, path, <<>>, "", Body("json", TRUE, <<>>, <<>>, <<>>, <<>>)),
     handles |-> <<>>]

RequestWithOptionalFiles(method, path, attachments) ==
    LET built == _build_multipart(attachments)
    IN  IF attachments # <<>>
        THEN [ok |-> built.ok,
              request |-> Request(method, path, <<>>, "",
                                  Body("multipart", TRUE, built.files, <<>>, <<>>, <<>>)),
              handles |-> built.handles]
        ELSE [ok |-> TRUE,
              request |-> Request(method, path, <<>>, "", Body("json", TRUE, <<>>, <<>>, <<>>, <<>>)),
              handles |-> <<>>]

\* a client whose update takes half the chunk
UpdateSendsHalfChunk(delivery_id, recipients) ==
    Request("PUT", "/deliveries/bulk/update/", delivery_id, "",
            Body("json", FALSE, <<>>, Prefix(recipients, _MAX_RECIPIENTS_PER_UPDATE \div 2),
                 <<>>, <<>>))

\* a client that sends every recipient it is given
UpdateSendsAll(delivery_id, recipients) ==
    Request("PUT", "/deliveries/bulk/update/", delivery_id, "",
            Body("json", FALSE, <<>>, recipients, <<>>, <<>>))

\* update_bulk_delivery: body {"to": [{"email": e} for e in recipients[:50]]}
UpdateRequest(delivery_id, recipients) ==
    Request("PUT", "/deliveries/bulk/update/", delivery_id, "",
            Body("json", FALSE, <<>>, Prefix(recipients, _MAX_RECIPIENTS_PER_UPDATE),
                 <<>>, <<>>))

\* append_bulk_recipients: body {"email": email}
AppendRequest(delivery_id, email) ==
    Request("POST", "/deliveries/", delivery_id, "/emails",
            Body("json", FALSE, <<>>, <<>>, <<email>>, <<>>))

\* a loop that takes the recipients from the end of the list
NextRecipientFromEnd(recipients, position) == recipients[Len(recipients) - position]

\* for email in recipients: the recipient taken after `position` others
NextRecipient(recipients, position) == recipients[position + 1]

\* a client that always commits immediately
CommitAlwaysImmediate(delivery_id, schedule_at) ==
    Request("PATCH", "/deliveries/bulk/commit/", delivery_id, "/immediate",
            Body("none", FALSE, <<>>, <<>>, <<>>, <<>>))

\* commit_bulk_delivery: schedule_at is <<>> (None or "") or <<time>>
CommitRequest(delivery_id, schedule_at) ==
    IF schedule_at # <<>>
    THEN Request("PATCH", "/deliveries/bulk/commit/", delivery_id, "",
                 Body("json", FALSE, <<>>, <<>>, <<>>, schedule_at))
    ELSE Request("PATCH", "/deliveries/bulk/commit/", delivery_id, "/immediate",
                 Body("none", FALSE, <<>>, <<>>, <<>>, <<>>))

\* What the first request of operation o is, given its arguments
BeginOperation(o, attachments, delivery_id, recipients, schedule_at) ==
    CASE o = "send_transactional_email" ->
             RequestWithOptionalFiles("POST", "/deliveries/transaction", attachments)
      [] o = "create_bulk_delivery" ->
             RequestWithOptionalFiles("POST", "/deliveries/bulk/begin", attachments)
      [] o = "update_bulk_delivery" ->
             [ok |-> TRUE, request |-> UpdateRequest(delivery_id, recipients), handles |-> <<>>]
      [] o = "append_bulk_recipients" ->
             [ok |-> TRUE, request |-> AppendRequest(delivery_id, NextRecipient(recipients, 0)),
              handles |-> <<>>]
      [] OTHER ->
             [ok |-> TRUE, request |-> CommitRequest(delivery_id, schedule_at), handles |-> <<>>]

----------------------------------------------------------------------------
(* What the remote side may answer *)

MaxRetriesBound == 2

Statuses == {200, 400, 501} \cup _RETRY_STATUSES

JsonBody(data) == [json_ok |-> TRUE, data |-> data, text |-> Dumps(data)]

TextBody(text) == [json_ok |-> FALSE, data |-> None, text |-> text]

Bodies ==
    {TextBody(TxtSecret),
     JsonBody(JList(<<>>)),
     JsonBody(WithIds(JStr(Word("D1", 2)), Absent, Absent)),
     JsonBody(WithIds(Absent, Absent, JInt(7))),
     JsonBody(WithErrors(Absent, JStr(TxtSecret), Absent, Absent, Absent)),
     JsonBody(WithErrors(JDict(<<Item(Word("main", 4), JList(<<JStr(TxtBearer)>>))>>),
                         Absent, Absent, Absent, Absent)),
     JsonBody(WithErrors(Absent, Absent, Absent, Absent, JList(<<JStr(Secret40)>>))),
     JsonBody(WithErrors(Absent, JDict(<<Item(Word("field", 5), JStr(TxtSecret))>>),
                         Absent, Absent, Absent))}

ExceptionTexts == {TxtSecret}

\* one answer to one HTTP request: a requests.RequestException, or a response
Replies ==
    {[exc |-> TRUE, text |-> t, status |-> 0, body |-> TextBody(<<>>)] : t \in ExceptionTexts}
    \cup {[exc |-> FALSE, text |-> <<>>, status |-> st, body |-> b] :
             st \in Statuses, b \in Bodies}

\* the answers explored under a tool invocation: a transport failure, and a
\* success, a rejection and an unavailability with or without a delivery id
ToolReplies ==
    {r \in Replies :
        \/ r.exc
        \/ /\ r.status \in {200, 400, 503}
           /\ r.body \in {JsonBody(WithIds(JStr(Word("D1", 2)), Absent, Absent)),
                          JsonBody(WithIds(Absent, Absent, JInt(7))),
                          JsonBody(JList(<<>>)),
                          JsonBody(WithErrors(Absent, JStr(TxtSecret), Absent, Absent, Absent))}}

RepliesTo(c) == IF c = "direct" THEN Replies ELSE ToolReplies

\* the answers explored for the requests of operation o
RepliesFor(c, o) == IF o = "append_bulk_recipients" THEN ToolReplies ELSE RepliesTo(c)

ResponseOf(reply) ==
    Response(reply.status, reply.body.json_ok, reply.body.data, reply.body.text)

Seen(reply) == [exc |-> reply.exc, status |-> reply.status]

----------------------------------------------------------------------------
(* The client and its bearer token *)

\* hashlib.sha256(...).hexdigest().lower(): the digest of a string of characters,
\* kept as a term; SHA-256 is taken to have no collisions on the strings explored
Sha256Hex(chars) == [sha256 |-> chars]

\* base64.b64encode(...).decode(): the encoding of a text, kept as a term
Base64(text) == [b64 |-> text]

\* a token that leaves the login id out
TokenFromApiKeyOnly(login_id, api_key) == Base64(Sha256Hex(api_key))

\* _generate_bearer_token: base64 of the lower-case hex digest of login_id + api_key
_generate_bearer_token(login_id, api_key) == Base64(Sha256Hex(login_id \o api_key))

\* dataclass fields and __post_init__: the token is computed at construction
Client(login_id, api_key) ==
    [built |-> TRUE, login_id |-> login_id, api_key |-> api_key,
     _bearer_token |-> _generate_bearer_token(login_id, api_key)]

\* no client has been constructed
NoClient ==
    [built |-> FALSE, login_id |-> <<>>, api_key |-> <<>>,
     _bearer_token |-> Base64(Sha256Hex(<<>>))]

\* headers of _request: Authorization: Bearer <token>, and Content-Type:
\* application/json for a json= body; no operation passes headers of its own
Headers(c, body) ==
    [Authorization |-> <<"Bearer", c._bearer_token>>, json |-> body.kind = "json"]

\* some earlier attempt of the same call has read the buffers of files= to
\* their end: the BytesIO of the JSON part and the handles of the attachments
\* are created once, before the loop, and nothing seeks them back
BuffersRead(earlier) == \E i \in 1..Len(earlier) : earlier[i].read

\* one self._session.request(...) of the loop: the headers, whether the
\* attempt encoded files= (which reads every buffer to its end; a json= body is
\* serialised anew on each attempt), and what the parts of the body held.
\* prepared is FALSE when the transport failed before the body was encoded.
Transmission(c, body, earlier, prepared) ==
    [Authorization |-> Headers(c, body).Authorization,
     json |-> Headers(c, body).json,
     read |-> body.kind = "multipart" /\ prepared,
     parts |-> IF ~prepared THEN "none"
               ELSE IF body.kind = "multipart" /\ BuffersRead(earlier) THEN "empty"
               ELSE "full"]

----------------------------------------------------------------------------
(* BlastengineHttpClient._request: one iteration of the retry loop *)

RECURSIVE Pow2(_)
Pow2(k) == IF k = 0 THEN 1 ELSE 2 * Pow2(k - 1)

\* a backoff that starts at 2
BackoffFromTwo(k) == Pow2(k + 1)

\* time.sleep(2**attempt)
Backoff(k) == Pow2(k)

\* a loop that goes round again whatever the attempt index
AttemptsRemainAlways(k, retries) == k <= retries

\* a loop that allows one attempt fewer
AttemptsRemainOffByOne(k, retries) == k + 1 < retries

\* attempt < self.max_retries
AttemptsRemain(k, retries) == k < retries

\* a client that retries every error status
ShouldRetryAnyError(status) == status >= 400

ShouldRetry(status) == status \in _RETRY_STATUSES

RequestFailed(text) ==
    Message("request_failed", <<>>, "exception", <<>>, <<_sanitize_for_log(text)>>)

LogRecord(parts) == [level |-> "error", parts |-> parts]

\* The step of the loop body for one reply: retry (sleep and go round again),
\* raise, or return the response.
AttemptStep(reply, k, retries, multipart) ==
    IF reply.exc
    THEN IF AttemptsRemain(k, retries)
         THEN [next |-> "retry", out |-> NoOutcome, logged |-> <<>>]
         ELSE [next |-> "raise",
               out |-> BlastengineHttpError(<<>>, RequestFailed(reply.text), <<>>),
               logged |-> <<>>]
    ELSE IF ShouldRetry(reply.status) /\ AttemptsRemain(k, retries)
    THEN [next |-> "retry", out |-> NoOutcome, logged |-> <<>>]
    ELSE IF reply.status >= 400
    THEN LET message == _extract_error_message(ResponseOf(reply))
             sanitized_body == _sanitize_for_log(reply.body.text)
         IN  [next |-> "raise",
              out |-> BlastengineHttpError(<<reply.status>>, message, sanitized_body),
              logged |-> <<LogRecord(message.parts \o <<sanitized_body>>)>> \o
                         (IF multipart
                          THEN <<LogRecord(<<Sep("Request was sent as multipart/form-data", 39)>>)>>
                          ELSE <<>>)]
    ELSE [next |-> "return", out |-> NoOutcome, logged |-> <<>>]

\* the raise after the loop; str(last_error) is not kept
RequestFailedAfterLoop == Message("request_failed", <<>>, "after_loop", <<>>, <<>>)

\* for attempt in range(self.max_retries + 1): the step of the loop body, or
\* the raise after the loop when a `continue` ends the last iteration
LoopStep(reply, k, retries, multipart) ==
    LET step == AttemptStep(reply, k, retries, multipart)
    IN  IF step.next = "retry" /\ k + 1 > retries
        THEN [next |-> "raise",
              out |-> BlastengineHttpError(<<>>, RequestFailedAfterLoop, <<>>),
              logged |-> <<>>]
        ELSE step

\* What the operation does with the outcome of _request
AfterRequest(o, step, reply) ==
    IF step.next = "raise"
    THEN [out |-> step.out,
          logged |-> IF o = "send_transactional_email" /\ step.out.status_code = <<400>>
                     THEN <<LogRecord(step.out.message.parts)>> \o
                          (IF step.out.body # <<>> THEN <<LogRecord(<<step.out.body>>)>>
                           ELSE <<>>)
                     ELSE <<>>]
    ELSE IF o \in {"update_bulk_delivery", "append_bulk_recipients"}
    THEN [out |-> Returned(<<>>), logged |-> <<>>]
    ELSE [out |-> _extract_delivery_id(ResponseOf(reply)), logged |-> <<>>]

----------------------------------------------------------------------------
(* Arguments of direct client calls *)

F1 == File("report", <<".", "P", "D", "F">>, 400000, TRUE)
F2 == File("data", <<".", "x", "y", "z">>, 600000, TRUE)
FGone == File("gone", <<".", "t", "x", "t">>, 0, FALSE)

AttachmentSets == {<<>>, <<F1, F2>>, <<F1, FGone, F2>>}

\* the address with number i, as a string of characters
Address(i) == <<Digits[(i \div 10) + 1], Digits[(i % 10) + 1], "@", "b", ".", "c">>

Addresses(n) == [i \in 1..n |-> Address(i)]

\* a schedule_at string: malformed, or an ISO time t (hours) with an offset or naive
Schedule(kind, t, tz) == [kind |-> kind, t |-> t, tz |-> tz]

ClientOps == {"send_transactional_email", "create_bulk_delivery",
              "update_bulk_delivery", "append_bulk_recipients", "commit_bulk_delivery"}

TakesFiles(o) == o \in {"send_transactional_email", "create_bulk_delivery"}

\* max_retries of the clients explored: any value up to the bound for the
\* operation without result processing, the default (from_context) for the rest
RetryChoices(o) ==
    IF o = "update_bulk_delivery" THEN 0..MaxRetriesBound ELSE {DefaultMaxRetries}

\* login_id and api_key of the clients explored: pairs that differ in the order
\* of the parts and in where the login id ends
CredentialChoices(o) ==
    IF o = "commit_bulk_delivery"
    THEN {<<<<"a", "b">>, <<"c">>>>, <<<<"a">>, <<"b", "c">>>>, <<<<"c">>, <<"a", "b">>>>}
    ELSE {<<<<"a", "b">>, <<"c">>>>}

\* recipient lists of the calls explored: for an update shorter than, as long as
\* and longer than its chunk; for the appending loop none, one, and three with a
\* repeated address
RecipientChoices(o) ==
    IF o = "update_bulk_delivery"
    THEN {Addresses(n) : n \in {0, 2, _MAX_RECIPIENTS_PER_UPDATE,
                                _MAX_RECIPIENTS_PER_UPDATE + 1, _MAX_RECIPIENTS_PER_UPDATE + 9}}
    ELSE IF o = "append_bulk_recipients"
    THEN {<<>>, Addresses(1), <<Address(2), Address(1), Address(1)>>}
    ELSE {Addresses(2)}

----------------------------------------------------------------------------
(* tools/validators.py *)

MAX_ATTACHMENT_COUNT == 10
MAX_TOTAL_ATTACHMENT_BYTES == 1000000
DISALLOWED_EXTENSIONS ==
    {<<".", "e", "x", "e">>, <<".", "b", "a", "t">>, <<".", "j", "s">>,
     <<".", "v", "b", "s">>, <<".", "z", "i", "p">>, <<".", "g", "z">>,
     <<".", "d", "l", "l">>, <<".", "s", "c", "r">>}
MAX_BULK_RECIPIENTS == 50
MAX_TRANSACTIONAL_RECIPIENTS == 10

\* raw_value of normalize_email_list: None, a string, or a list of strings
RawNone == [t |-> "none", s |-> <<>>, items |-> <<>>]
RawStr(s) == [t |-> "str", s |-> s, items |-> <<>>]
RawList(items) == [t |-> "list", s |-> <<>>, items |-> items]

\* the addresses one candidate entry contributes
Expand(entry) ==
    LET text == Strip(entry)
    IN  IF text = <<>> THEN <<>>
        ELSE IF Contains(text, ",") \/ Contains(text, "\n")
        THEN NonEmptyStripped(Split(text))
        ELSE <<text>>

RECURSIVE ExpandAll(_)
ExpandAll(candidates) ==
    IF candidates = <<>> THEN <<>>
    ELSE Expand(Head(candidates)) \o ExpandAll(Tail(candidates))

LocalPart(email) == SubSeq(email, 1, (CHOOSE i \in 1..Len(email) : email[i] = "@") - 1)

DomainPart(email) ==
    SubSeq(email, (CHOOSE i \in 1..Len(email) : email[i] = "@") + 1, Len(email))

\* the format check of normalize_email_list: no ValueError is raised for email
WellFormed(email) ==
    /\ Count(email, "@") = 1
    /\ LocalPart(email) # <<>> /\ DomainPart(email) # <<>>
    /\ Contains(DomainPart(email), ".")
    /\ Strip(LocalPart(email)) # <<>> /\ Strip(DomainPart(email)) # <<>>

\* a de-duplication that compares the spellings as they are
DedupeCaseSensitive(emails) ==
    Pick(emails, {i \in 1..Len(emails) : \A j \in 1..(i - 1) : emails[j] # emails[i]})

\* an email is kept unless its lowered form was seen at an earlier position
Dedupe(emails) ==
    LET lowered == [i \in 1..Len(emails) |-> Lower(emails[i])]
    IN  Pick(emails, {i \in 1..Len(emails) : \A j \in 1..(i - 1) : lowered[j] # lowered[i]})

\* ok = FALSE: ValueError
normalize_email_list(raw_value) ==
    LET candidates == IF raw_value.t = "none" THEN <<>>
                      ELSE IF raw_value.t = "str" THEN <<raw_value.s>>
                      ELSE raw_value.items
        emails == ExpandAll(candidates)
    IN  IF \E i \in 1..Len(emails) : ~WellFormed(emails[i])
        THEN [ok |-> FALSE, emails |-> <<>>]
        ELSE [ok |-> TRUE, emails |-> Dedupe(emails)]

\* a validation without the maximum
ValidateRecipientsNoMaximum(emails, maximum) == emails # <<>>

\* TRUE: no ValueError
validate_recipients(emails, maximum) == emails # <<>> /\ Len(emails) <= maximum

RECURSIVE TotalBytes(_)
TotalBytes(files) == IF files = <<>> THEN 0 ELSE Head(files).size + TotalBytes(Tail(files))

\* a validation that holds each file, not their sum, against the limit
ValidateAttachmentsPerFile(files) ==
    /\ Len(files) <= MAX_ATTACHMENT_COUNT
    /\ \A i \in 1..Len(files) :
          /\ Lower(files[i].ext) \notin DISALLOWED_EXTENSIONS
          /\ files[i].size >= 0
          /\ files[i].size <= MAX_TOTAL_ATTACHMENT_BYTES

\* TRUE: no ValueError.  A file of size -1 does not exist: os.path.getsize raises.
validate_attachments(files) ==
    /\ Len(files) <= MAX_ATTACHMENT_COUNT
    /\ \A i \in 1..Len(files) :
          /\ Lower(files[i].ext) \notin DISALLOWED_EXTENSIONS
          /\ files[i].size >= 0
    /\ TotalBytes(files) <= MAX_TOTAL_ATTACHMENT_BYTES

\* utcoffset() in hours; a naive time is given tzinfo = timezone.utc
TzOffset(tz) ==
    CASE tz = "+09:00" -> 9
      [] tz = "-05:00" -> -5
      [] OTHER -> 0

\* a comparison that lets the present moment pass
ParseScheduleAcceptsNow(raw_value, now) ==
    IF raw_value = <<>> THEN [ok |-> TRUE, value |-> <<>>]
    ELSE IF raw_value[1].kind = "malformed" THEN [ok |-> FALSE, value |-> <<>>]
    ELSE LET parsed == raw_value[1].t - TzOffset(raw_value[1].tz)
         IN  IF parsed < now THEN [ok |-> FALSE, value |-> <<>>]
             ELSE [ok |-> TRUE, value |-> <<parsed>>]

\* raw_value is <<>> (None or "") or <<schedule>>; ok = FALSE: ValueError;
\* value is <<>> (None) or <<the instant in UTC hours>>
parse_schedule_datetime(raw_value, now) ==
    IF raw_value = <<>> THEN [ok |-> TRUE, value |-> <<>>]
    ELSE IF raw_value[1].kind = "malformed" THEN [ok |-> FALSE, value |-> <<>>]
    ELSE LET parsed == raw_value[1].t - TzOffset(raw_value[1].tz)
         IN  IF parsed <= now THEN [ok |-> FALSE, value |-> <<>>]
             ELSE [ok |-> TRUE, value |-> <<parsed>>]

----------------------------------------------------------------------------
(* Tool parameters and provider credentials *)

\* A string parameter is a sequence of characters; <<>> is both None and "",
\* which every use (value or "").strip() treats alike.
Chars4 == <<"H", "e", "l", "o">>
Blank == <<" ", " ">>

\* custom_headers: absent, a dict, a JSON text of an object, a text that is
\* not JSON, or a value of another type (a number)
HeaderKinds == {"none", "dict", "json_object", "bad_json", "number"}

\* A recipients CSV: whether it can be read, and the first cell of each row
\* (<<>> for an empty row)
Csv(readable, cells) == [readable |-> readable, cells |-> cells]

\* The parameters of a valid invocation of either tool with one recipient
Baseline ==
    [login_id |-> Chars4, api_key |-> Chars4, default_from_address |-> <<>>,
     to |-> RawStr(Address(1)), cc |-> RawNone, bcc |-> RawNone,
     recipients |-> RawStr(Address(1)), recipients_file |-> <<>>,
     subject |-> Chars4, text_body |-> Chars4, html_body |-> <<>>,
     from_address |-> Address(90), custom_headers |-> "none",
     attachments |-> <<>>, schedule_at |-> <<>>, now |-> 20]

\* addresses i..j separated by commas and newlines, with blanks around
RECURSIVE AddressText(_, _)
AddressText(i, j) ==
    IF i > j THEN <<>>
    ELSE IF i = j THEN Address(i)
    ELSE Address(i) \o (IF i % 2 = 0 THEN <<",", " ">> ELSE <<" ", "\n">>) \o AddressText(i + 1, j)

FExe == File("setup", <<".", "E", "X", "E">>, 10, TRUE)
FLost == File("lost", <<".", "t", "x", "t">>, -1, FALSE)
FSmall(i) == File("small", <<".", "t", "x", "t">>, i, TRUE)

\* The address fields of a tool: to for the transactional tool, recipients for
\* the bulk tool
WithAddresses(p, raw) == [p EXCEPT !.to = raw, !.recipients = raw]

\* The cases explored: the baseline and variations of it in one respect, each
\* named for what the variation is
Case(name, params) == [name |-> name, params |-> params]

CommonCases ==
    {Case("valid", Baseline),
     Case("valid_html_only", [Baseline EXCEPT !.text_body = Blank, !.html_body = Chars4]),
     Case("valid_default_from",
          [Baseline EXCEPT !.from_address = <<>>, !.default_from_address = Address(91)]),
     Case("valid_attachments", [Baseline EXCEPT !.attachments = <<F1, F2>>]),
     Case("valid_two_recipients", WithAddresses(Baseline, RawStr(AddressText(1, 2)))),
     Case("valid_duplicates",
          WithAddresses(Baseline, RawList(<<Address(1), AddressText(1, 3), <<>>>>))),
     Case("attachment_cannot_be_opened", [Baseline EXCEPT !.attachments = <<F1, FGone>>]),
     Case("missing_login_id", [Baseline EXCEPT !.login_id = <<>>]),
     Case("missing_api_key", [Baseline EXCEPT !.api_key = Blank]),
     Case("missing_subject", [Baseline EXCEPT !.subject = Blank]),
     Case("missing_body", [Baseline EXCEPT !.text_body = <<>>, !.html_body = Blank]),
     Case("missing_from", [Baseline EXCEPT !.from_address = Blank]),
     Case("recipient_without_at", WithAddresses(Baseline, RawStr(<<"a", "b", ".", "c">>))),
     Case("recipient_with_two_at",
          WithAddresses(Baseline, RawStr(Address(1) \o <<",">> \o <<"a", "@", "@", "b", ".", "c">>))),
     Case("recipient_without_dot", WithAddresses(Baseline, RawList(<<<<"a", "@", "b", "c">>>>))),
     Case("recipient_without_local", WithAddresses(Baseline, RawStr(<<"@", "b", ".", "c">>))),
     Case("no_recipients", WithAddresses(Baseline, RawNone)),
     Case("blank_recipients", WithAddresses(Baseline, RawStr(<<" ", ",", " ", "\n">>))),
     Case("disallowed_extension", [Baseline EXCEPT !.attachments = <<F1, FExe>>]),
     Case("oversized_attachments", [Baseline EXCEPT !.attachments = <<F1, F2, FSmall(1)>>]),
     Case("too_many_attachments",
          [Baseline EXCEPT !.attachments = [i \in 1..(MAX_ATTACHMENT_COUNT + 1) |-> FSmall(i)]]),
     Case("attachment_without_size", [Baseline EXCEPT !.attachments = <<FLost>>]),
     Case("malformed_from", [Baseline EXCEPT !.from_address = <<"n", "o", "b", "o", "d", "y">>])}

TransactionalCases ==
    CommonCases \cup
    {Case("valid_most_recipients",
          [Baseline EXCEPT !.to = RawStr(AddressText(1, MAX_TRANSACTIONAL_RECIPIENTS))]),
     Case("valid_cc_bcc", [Baseline EXCEPT !.cc = RawStr(Address(2)), !.bcc = RawStr(Address(3))]),
     Case("valid_headers", [Baseline EXCEPT !.custom_headers = "json_object"]),
     Case("too_many_recipients",
          [Baseline EXCEPT !.to = RawStr(AddressText(1, MAX_TRANSACTIONAL_RECIPIENTS + 1))]),
     Case("too_many_cc",
          [Baseline EXCEPT !.cc = RawStr(AddressText(1, MAX_TRANSACTIONAL_RECIPIENTS + 1))]),
     Case("malformed_bcc", [Baseline EXCEPT !.bcc = RawStr(<<"a", "@", "b">>)]),
     Case("headers_not_json", [Baseline EXCEPT !.custom_headers = "bad_json"]),
     Case("headers_of_wrong_type", [Baseline EXCEPT !.custom_headers = "number"])}

BulkCases ==
    CommonCases \cup
    {Case("valid_most_recipients",
          [Baseline EXCEPT !.recipients = RawStr(AddressText(1, MAX_BULK_RECIPIENTS))]),
     Case("valid_scheduled", [Baseline EXCEPT !.schedule_at = <<Schedule("time", 21, "naive")>>]),
     Case("valid_scheduled_offset",
          [Baseline EXCEPT !.schedule_at = <<Schedule("time", 30, "+09:00")>>]),
     Case("valid_blank_schedule", [Baseline EXCEPT !.schedule_at = <<Schedule("blank", 0, "naive")>>]),
     Case("valid_csv",
          [Baseline EXCEPT !.recipients_file =
              <<Csv(TRUE, <<Address(2), <<>>, <<" ">> \o Address(1), Address(3)>>)>>]),
     Case("too_many_recipients",
          [Baseline EXCEPT !.recipients = RawStr(AddressText(1, MAX_BULK_RECIPIENTS + 1))]),
     Case("too_many_recipients_with_csv",
          [Baseline EXCEPT !.recipients = RawStr(AddressText(1, MAX_BULK_RECIPIENTS)),
                           !.recipients_file = <<Csv(TRUE, <<Address(60)>>)>>]),
     Case("malformed_csv_address",
          [Baseline EXCEPT !.recipients_file = <<Csv(TRUE, <<<<"x", "@", "y">>>>)>>]),
     Case("unreadable_csv", [Baseline EXCEPT !.recipients_file = <<Csv(FALSE, <<>>)>>]),
     Case("schedule_now", [Baseline EXCEPT !.schedule_at = <<Schedule("time", 20, "naive")>>]),
     Case("schedule_past", [Baseline EXCEPT !.schedule_at = <<Schedule("time", 28, "+09:00")>>]),
     Case("schedule_malformed", [Baseline EXCEPT !.schedule_at = <<Schedule("malformed", 0, "naive")>>])}

----------------------------------------------------------------------------
(* The running invocation *)

NoResult == [status |-> "none", messages |-> <<>>]

\* One _invoke: the case of parameters it was given, and its local variables;
\* position counts the recipients a loop over them has taken
Invocation(tool, case, recipients, schedule_at, attachments) ==
    [tool |-> tool, case |-> case, recipients |-> recipients,
     schedule_at |-> schedule_at, attachments |-> attachments,
     delivery_id |-> <<>>, failure |-> "", result |-> NoResult, cleaned |-> FALSE,
     position |-> 0]

NoInvocation == Invocation("none", "none", <<>>, <<>>, <<>>)

TextMessage(kind) == [type |-> "text", kind |-> kind, delivery_id |-> <<>>, recipient_count |-> 0]

JsonMessage(delivery_id, recipient_count) ==
    [type |-> "json", kind |-> "payload", delivery_id |-> delivery_id,
     recipient_count |-> recipient_count]

\* _handle_error: one text message
HandleError == [status |-> "error", messages |-> <<TextMessage("failed")>>]

Succeeded(delivery_id, recipient_count) ==
    [status |-> "ok",
     messages |-> <<TextMessage("sent"), JsonMessage(delivery_id, recipient_count)>>]

\* A bulk tool that commits right after the creation
AfterOperationSkipsUpdate(c, o, out, iv) ==
    IF c = "bulk" /\ out.kind = "returned" /\ o = "create_bulk_delivery"
    THEN [pc |-> "request", op |-> "commit_bulk_delivery",
          request |-> <<CommitRequest(out.value, iv.schedule_at)>>,
          inv |-> [iv EXCEPT !.delivery_id = out.value]]
    ELSE [pc |-> "done", op |-> o, request |-> <<>>,
          inv |-> [iv EXCEPT !.cleaned = TRUE,
                             !.delivery_id = IF out.kind = "returned" THEN out.value ELSE @,
                             !.result = IF out.kind = "returned"
                                        THEN Succeeded(out.value, Len(iv.recipients))
                                        ELSE HandleError]]

\* A tool whose except clause names the errors of the client and of the
\* validators only: any other exception leaves _invoke, after the cleanup
AfterOperationCatchesKnownErrors(c, o, out, iv) ==
    IF c = "bulk" /\ out.kind = "returned" /\ o = "create_bulk_delivery"
    THEN [pc |-> "request", op |-> "update_bulk_delivery",
          request |-> <<UpdateRequest(out.value, iv.recipients)>>,
          inv |-> [iv EXCEPT !.delivery_id = out.value]]
    ELSE IF c = "bulk" /\ out.kind = "returned" /\ o = "update_bulk_delivery"
    THEN [pc |-> "request", op |-> "commit_bulk_delivery",
          request |-> <<CommitRequest(iv.delivery_id, iv.schedule_at)>>,
          inv |-> iv]
    ELSE [pc |-> "done", op |-> o, request |-> <<>>,
          inv |-> [iv EXCEPT !.cleaned = TRUE,
                             !.delivery_id = IF out.kind = "returned" THEN out.value ELSE @,
                             !.result = IF out.kind = "returned"
                                        THEN Succeeded(out.value, Len(iv.recipients))
                                        ELSE IF out.exc \in {"BlastengineHttpError", "ValueError"}
                                        THEN HandleError
                                        ELSE @]]

\* What follows a finished client operation o with outcome out: for the bulk
\* tool the next remote step, for a tool the result messages and the cleanup,
\* for a direct call nothing.
AfterOperation(c, o, out, iv) ==
    IF c = "bulk" /\ out.kind = "returned" /\ o = "create_bulk_delivery"
    THEN [pc |-> "request", op |-> "update_bulk_delivery",
          request |-> <<UpdateRequest(out.value, iv.recipients)>>,
          inv |-> [iv EXCEPT !.delivery_id = out.value]]
    ELSE IF c = "bulk" /\ out.kind = "returned" /\ o = "update_bulk_delivery"
    THEN [pc |-> "request", op |-> "commit_bulk_delivery",
          request |-> <<CommitRequest(iv.delivery_id, iv.schedule_at)>>,
          inv |-> iv]
    ELSE IF c \in {"bulk", "transactional"}
    THEN [pc |-> "done", op |-> o, request |-> <<>>,
          inv |-> [iv EXCEPT !.cleaned = TRUE,
                             !.delivery_id = IF out.kind = "returned" THEN out.value ELSE @,
                             !.result = IF out.kind = "returned"
                                        THEN Succeeded(out.value, Len(iv.recipients))
                                        ELSE HandleError]]
    \* the loop of append_bulk_recipients goes on to the next recipient
    ELSE IF /\ c = "direct" /\ o = "append_bulk_recipients" /\ out.kind = "returned"
            /\ iv.position + 1 < Len(iv.recipients)
    THEN [pc |-> "request", op |-> o,
          request |-> <<AppendRequest(iv.delivery_id,
                                      NextRecipient(iv.recipients, iv.position + 1))>>,
          inv |-> [iv EXCEPT !.position = @ + 1]]
    ELSE [pc |-> "done", op |-> o, request |-> <<>>, inv |-> iv]

----------------------------------------------------------------------------
(* The tools up to their first remote call *)

\* a or b, for strings
StrOr(a, b) == IF a # <<>> THEN a ELSE b

\* _load_provider_context; ok = FALSE: ValueError
_load_provider_context(p) ==
    [ok |-> Strip(p.login_id) # <<>> /\ Strip(p.api_key) # <<>>,
     default_from_address |-> Strip(p.default_from_address)]

\* _normalize_headers; TRUE: no exception
_normalize_headers(raw_value) == raw_value \in {"none", "dict", "json_object"}

\* _load_csv_addresses; ok = FALSE: ValueError
_load_csv_addresses(csv) ==
    [ok |-> csv.readable, addresses |-> NonEmptyStripped(csv.cells)]

\* How far _invoke gets before the client is called: ok with the arguments of
\* the calls, or the check that raised
Prepared(recipients, schedule_at, attachments) ==
    [ok |-> TRUE, built |-> TRUE, failure |-> "", recipients |-> recipients,
     schedule_at |-> schedule_at, attachments |-> attachments]

Rejected(failure) ==
    [ok |-> FALSE, built |-> FALSE, failure |-> failure, recipients |-> <<>>,
     schedule_at |-> <<>>, attachments |-> <<>>]

\* SendBulkEmailTool._invoke down to client.create_bulk_delivery
BulkPrepare(p) ==
    LET context == _load_provider_context(p)
        subject == Strip(p.subject)
        text_body == Strip(p.text_body)
        html_body == Strip(p.html_body)
        from_address == Strip(StrOr(p.from_address, context.default_from_address))
        given == normalize_email_list(p.recipients)
        csv == IF p.recipients_file # <<>>
               THEN _load_csv_addresses(p.recipients_file[1])
               ELSE [ok |-> TRUE, addresses |-> <<>>]
        recipients == normalize_email_list(RawList(given.emails \o csv.addresses))
        schedule_raw == IF p.schedule_at # <<>> /\ p.schedule_at[1].kind # "blank"
                        THEN p.schedule_at ELSE <<>>
        schedule_time == parse_schedule_datetime(schedule_raw, p.now)
    IN  IF ~context.ok THEN Rejected("credentials")
        ELSE IF subject = <<>> THEN Rejected("subject")
        ELSE IF text_body = <<>> /\ html_body = <<>> THEN Rejected("body")
        ELSE IF from_address = <<>> THEN Rejected("from_address")
        ELSE IF ~given.ok THEN Rejected("recipients")
        ELSE IF ~csv.ok THEN Rejected("recipients_file")
        ELSE IF ~recipients.ok THEN Rejected("recipients")
        ELSE IF ~validate_recipients(recipients.emails, MAX_BULK_RECIPIENTS)
        THEN Rejected("recipients")
        ELSE IF ~schedule_time.ok THEN Rejected("schedule_at")
        ELSE IF ~validate_attachments(p.attachments) THEN Rejected("attachments")
        ELSE Prepared(recipients.emails,
                      IF schedule_time.value # <<>> THEN schedule_raw ELSE <<>>,
                      p.attachments)

\* SendTransactionalEmailTool._invoke down to client.send_transactional_email
TransactionalPrepare(p) ==
    LET context == _load_provider_context(p)
        recipients == normalize_email_list(p.to)
        cc_recipients == normalize_email_list(p.cc)
        bcc_recipients == normalize_email_list(p.bcc)
        subject == Strip(p.subject)
        text_body == Strip(p.text_body)
        html_body == Strip(p.html_body)
        from_address == Strip(StrOr(p.from_address, context.default_from_address))
        from_email_list == normalize_email_list(RawList(<<from_address>>))
    IN  IF ~context.ok THEN Rejected("credentials")
        ELSE IF ~recipients.ok THEN Rejected("to")
        ELSE IF ~validate_recipients(recipients.emails, MAX_TRANSACTIONAL_RECIPIENTS)
        THEN Rejected("to")
        ELSE IF ~cc_recipients.ok THEN Rejected("cc")
        ELSE IF cc_recipients.emails # <<>>
                /\ ~validate_recipients(cc_recipients.emails, MAX_TRANSACTIONAL_RECIPIENTS)
        THEN Rejected("cc")
        ELSE IF ~bcc_recipients.ok THEN Rejected("bcc")
        ELSE IF bcc_recipients.emails # <<>>
                /\ ~validate_recipients(bcc_recipients.emails, MAX_TRANSACTIONAL_RECIPIENTS)
        THEN Rejected("bcc")
        ELSE IF subject = <<>> THEN Rejected("subject")
        ELSE IF text_body = <<>> /\ html_body = <<>> THEN Rejected("body")
        ELSE IF from_address = <<>> THEN Rejected("from_address")
        ELSE IF ~_normalize_headers(p.custom_headers) THEN Rejected("custom_headers")
        ELSE IF ~validate_attachments(p.attachments) THEN Rejected("attachments")
        \* the client is created before the From address is checked
        ELSE IF ~from_email_list.ok \/ from_email_list.emails = <<>>
        THEN [Rejected("from_address") EXCEPT !.built = TRUE]
        ELSE Prepared(recipients.emails, <<>>, p.attachments)

----------------------------------------------------------------------------
(* Actions *)

Init ==
    /\ pc = "idle" /\ caller = "none" /\ op = "none"
    /\ max_retries = DefaultMaxRetries /\ attempt = 0
    /\ calls = <<>> /\ replies = <<>> /\ sleeps = <<>> /\ handles = <<>>
    /\ outcome = NoOutcome /\ results = <<>> /\ log = <<>> /\ inv = NoInvocation
    /\ client = NoClient /\ sent = <<>>
    /\ arg = <<>> /\ ret = <<>>

\* A client operation begins: its request is built (attachments opened) and the
\* loop of _request is entered, or _build_multipart raises.
Begin(c, o, begun, iv) ==
    /\ caller' = c
    /\ op' = o
    /\ attempt' = 0
    /\ replies' = <<>>
    /\ sleeps' = <<>>
    /\ handles' = begun.handles
    /\ log' = log
    /\ results' = results
    /\ sent' = sent
    /\ IF begun.ok
       THEN /\ calls' = Append(calls, begun.request)
            /\ pc' = "request"
            /\ outcome' = NoOutcome
            /\ inv' = iv
       ELSE LET after == AfterOperation(c, o, Raised("OSError"), iv)
            IN  /\ calls' = calls
                /\ pc' = after.pc
                /\ outcome' = Raised("OSError")
                /\ inv' = after.inv

\* An operation that sends nothing returns at once
ReturnAtOnce(c, o, iv) ==
    /\ caller' = c
    /\ op' = o
    /\ pc' = "done"
    /\ outcome' = Returned(<<>>)
    /\ inv' = iv
    /\ attempt' = 0
    /\ replies' = <<>>
    /\ sleeps' = <<>>
    /\ UNCHANGED <<calls, handles, results, log, sent>>

\* A program calls one operation of a client it built with max_retries = n;
\* the arguments of the call are kept in inv
DirectCall ==
    /\ pc = "idle"
    /\ \E o \in ClientOps, files \in AttachmentSets, scheduled \in BOOLEAN :
       \E n \in RetryChoices(o), recipients \in RecipientChoices(o),
          credentials \in CredentialChoices(o) :
          LET schedule_at == IF scheduled THEN <<Schedule("time", 30, "naive")>> ELSE <<>>
          IN  /\ TakesFiles(o) \/ files = <<>>
              /\ o = "commit_bulk_delivery" \/ ~scheduled
              /\ max_retries' = n
              /\ client' = Client(credentials[1], credentials[2])
              /\ LET iv == [Invocation("client", "direct", recipients, schedule_at, files)
                                EXCEPT !.delivery_id = Word("D1", 2)]
                 IN  IF o = "append_bulk_recipients" /\ recipients = <<>>
                     THEN ReturnAtOnce("direct", o, iv)
                     ELSE Begin("direct", o,
                                BeginOperation(o, files, Word("D1", 2), recipients,
                                               schedule_at),
                                iv)
    /\ UNCHANGED <<arg, ret>>

\* _invoke of a tool on the parameters of case c: the local checks, then the
\* first client operation o, or the error result when a check raised
Invoke(tool, c, o, prep) ==
    LET iv == Invocation(tool, c.name, prep.recipients, prep.schedule_at, prep.attachments)
    IN  /\ max_retries' = DefaultMaxRetries
        \* _create_http_client: from_context(context), with the stripped credentials
        /\ client' = IF prep.built
                      THEN Client(Strip(c.params.login_id), Strip(c.params.api_key))
                      ELSE client
        /\ IF prep.ok
           THEN Begin(tool, o,
                      BeginOperation(o, prep.attachments, <<>>, prep.recipients,
                                     prep.schedule_at),
                      iv)
           ELSE /\ pc' = "done"
                /\ caller' = tool
                /\ outcome' = Raised("ValueError")
                /\ inv' = [iv EXCEPT !.failure = prep.failure, !.result = HandleError,
                                     !.cleaned = TRUE]
                /\ UNCHANGED <<op, attempt, calls, replies, sleeps, handles, results, log,
                               sent>>
        /\ UNCHANGED <<arg, ret>>

InvokeTransactional ==
    /\ pc = "idle"
    /\ \E c \in TransactionalCases :
          Invoke("transactional", c, "send_transactional_email", TransactionalPrepare(c.params))

InvokeBulk ==
    /\ pc = "idle"
    /\ \E c \in BulkCases :
          Invoke("bulk", c, "create_bulk_delivery", BulkPrepare(c.params))

\* One HTTP request of the current operation is sent and answered
RequestAttempt ==
    /\ pc = "request"
    /\ \E reply \in RepliesFor(caller, op), collected \in BOOLEAN, prepared \in BOOLEAN :
          LET step == LoopStep(reply, attempt, max_retries,
                               calls[Len(calls)].body.kind = "multipart")
              done == AfterRequest(op, step, reply)
              after == AfterOperation(caller, op, done.out, inv)
          IN  \* a response was received only for a body that was encoded; the
              \* transport can fail before or after the encoding
              /\ (~reply.exc \/ calls[Len(calls)].body.kind # "multipart") => prepared
              /\ sent' = Append(sent, Transmission(client, calls[Len(calls)].body,
                                                   SubSeq(sent, Len(sent) - attempt + 1, Len(sent)),
                                                   prepared))
              /\ IF step.next = "retry"
                 THEN /\ ~collected
                      /\ replies' = Append(replies, Seen(reply))
                      /\ sleeps' = Append(sleeps, Backoff(attempt))
                      /\ attempt' = attempt + 1
                      /\ UNCHANGED <<pc, op, calls, handles, outcome, results, log, inv>>
                 ELSE /\ outcome' = done.out
                      /\ results' = Append(results, done.out)
                      /\ log' = log \o step.logged \o done.logged
                      \* nothing closes the attachment handles; an unreferenced
                      \* file object may be closed by the garbage collector
                      /\ handles' = IF collected
                                    THEN [i \in 1..Len(handles) |-> "closed"]
                                    ELSE handles
                      /\ collected => handles # <<>>
                      /\ pc' = after.pc
                      /\ op' = after.op
                      /\ inv' = after.inv
                      /\ IF after.request # <<>>
                         THEN /\ calls' = Append(calls, after.request[1])
                              /\ attempt' = 0
                              /\ replies' = <<>>
                              /\ sleeps' = <<>>
                         ELSE /\ replies' = Append(replies, Seen(reply))
                              /\ UNCHANGED <<calls, attempt, sleeps>>
    /\ UNCHANGED <<caller, max_retries, client, arg, ret>>

Next == DirectCall \/ RequestAttempt

Spec == Init /\ [][Next]_vars

\* The two tools, each invoked once
NextTool == InvokeTransactional \/ InvokeBulk \/ RequestAttempt

SpecTool == Init /\ [][NextTool]_vars

----------------------------------------------------------------------------
(* Specifications of the two extraction functions on their own *)

Quiet ==
    /\ caller = "function" /\ op = "none" /\ max_retries = DefaultMaxRetries
    /\ attempt = 0 /\ calls = <<>> /\ replies = <<>> /\ sleeps = <<>>
    /\ handles = <<>> /\ outcome = NoOutcome /\ results = <<>> /\ log = <<>>
    /\ inv = NoInvocation /\ client = NoClient /\ sent = <<>>

InitId == Quiet /\ pc = "call" /\ arg \in IdResponses /\ ret = NoOutcome

ApplyExtractDeliveryId ==
    /\ pc = "call"
    /\ ret' = _extract_delivery_id(arg)
    /\ pc' = "ret"
    /\ UNCHANGED <<caller, op, max_retries, attempt, calls, replies, sleeps,
                   handles, outcome, results, log, inv, client, sent, arg>>

NextId == ApplyExtractDeliveryId

SpecId == InitId /\ [][NextId]_vars

InitErr == Quiet /\ pc = "call" /\ arg \in ErrorResponses /\ ret = NoMessage

ApplyExtractErrorMessage ==
    /\ pc = "call"
    /\ ret' = _extract_error_message(arg)
    /\ pc' = "ret"
    /\ UNCHANGED <<caller, op, max_retries, attempt, calls, replies, sleeps,
                   handles, outcome, results, log, inv, client, sent, arg>>

NextErr == ApplyExtractErrorMessage

SpecErr == InitErr /\ [][NextErr]_vars

----------------------------------------------------------------------------
(* Specifications of _sanitize_for_log and of the validators on their own *)

\* the function under test returns value
Apply(value) ==
    /\ pc = "call"
    /\ ret' = value
    /\ pc' = "ret"
    /\ UNCHANGED <<caller, op, max_retries, attempt, calls, replies, sleeps,
                   handles, outcome, results, log, inv, client, sent, arg>>

InitSanitize == Quiet /\ pc = "call" /\ arg \in SecretTexts /\ ret = <<>>

ApplySanitizeForLog == Apply(_sanitize_for_log(arg))

NextSanitize == ApplySanitizeForLog

SpecSanitize == InitSanitize /\ [][NextSanitize]_vars

\* A call of one validator: the function and its argument (the other arguments
\* empty); pieces are the pieces an address list was written from
ValidatorCall(fn, pieces, raw_value, files, schedule, now) ==
    [fn |-> fn, pieces |-> pieces, raw_value |-> raw_value, files |-> files,
     schedule |-> schedule, now |-> now]

\* Pieces of address lists: two spellings of one address, two other addresses,
\* an empty piece, one without "@" and one without a dot in its domain
AddressPieces ==
    {<<"a", "@", "b", ".", "c", "o", "m">>, <<"A", "@", "b", ".", "C", "O", "M">>,
     <<"c", "@", "d", ".", "c", "o", "m">>, <<"E", "@", "F", ".", "C", "O", "M">>,
     <<>>, <<"a", "b", ".", "c", "o", "m">>, <<"a", "@", "b">>}

PieceLists ==
    {<<a>> : a \in AddressPieces}
        \cup {<<a, b>> : a \in AddressPieces, b \in AddressPieces}
        \cup {<<a, b, c>> : a \in AddressPieces, b \in AddressPieces, c \in AddressPieces}

\* the separators of the first and of the second gap of a string of pieces
SeparatorPairs ==
    {<<<<",", " ">>, <<"\n">>>>, <<<<"\n">>, <<" ", ",", " ">>>>, <<<<",">>, <<",">>>>}

\* the pieces written as one string, with blanks around it
Written(pieces, seps) ==
    <<" ">> \o pieces[1]
        \o (IF Len(pieces) >= 2 THEN seps[1] \o pieces[2] ELSE <<>>)
        \o (IF Len(pieces) >= 3 THEN seps[2] \o pieces[3] ELSE <<>>)
        \o <<" ">>

\* Arguments of normalize_email_list, each with the pieces it was written from
NormalizeInputs ==
    {ValidatorCall("normalize_email_list", ps, RawStr(Written(ps, seps)), <<>>, <<>>, 0) :
        ps \in PieceLists, seps \in SeparatorPairs}
    \cup {ValidatorCall("normalize_email_list", ps,
                        RawList([i \in 1..Len(ps) |-> ps[i] \o <<" ">>]), <<>>, <<>>, 0) :
            ps \in PieceLists}
    \cup {ValidatorCall("normalize_email_list", <<>>, RawNone, <<>>, <<>>, 0)}

\* Files of attachment sets: sizes around the halves and the whole of the limit,
\* and executables of any size and spelling of the extension
AttachmentPool ==
    {File("f", <<".", "t", "x", "t">>, size, TRUE) :
        size \in {0, 1, 499999, 500000, 500001, 1000000, 1000001}}
    \cup {File("setup", <<".", "e", "x", "e">>, 0, TRUE),
          File("setup", <<".", "E", "X", "E">>, 1, TRUE),
          File("setup", <<".", "E", "x", "e">>, 2000000, TRUE),
          File("lost", <<".", "t", "x", "t">>, -1, FALSE)}

AttachmentInputs ==
    {ValidatorCall("validate_attachments", <<>>, RawNone, fs, <<>>, 0) :
        fs \in {<<>>, [i \in 1..10 |-> File("f", <<".", "t", "x", "t">>, 100000, TRUE)],
                      [i \in 1..10 |-> File("f", <<".", "t", "x", "t">>, 100001, TRUE)],
                      [i \in 1..11 |-> File("f", <<".", "t", "x", "t">>, 1, TRUE)]}
               \cup {<<a>> : a \in AttachmentPool}
               \cup {<<a, b>> : a \in AttachmentPool, b \in AttachmentPool}}

\* Arguments of parse_schedule_datetime and the time of the call, in hours
ScheduleInputs ==
    {ValidatorCall("parse_schedule_datetime", <<>>, RawNone, <<>>,
                   <<Schedule("time", t, tz)>>, now) :
        t \in 14..36, tz \in {"naive", "+00:00", "+09:00", "-05:00"}, now \in {24, 25}}
    \cup {ValidatorCall("parse_schedule_datetime", <<>>, RawNone, <<>>, raw, 24) :
            raw \in {<<>>, <<Schedule("malformed", 0, "naive")>>}}

InitValidators ==
    /\ Quiet /\ pc = "call" /\ ret = <<>>
    /\ arg \in NormalizeInputs \cup AttachmentInputs \cup ScheduleInputs

ApplyNormalizeEmailList ==
    /\ arg.fn = "normalize_email_list"
    /\ Apply(normalize_email_list(arg.raw_value))

ApplyValidateAttachments ==
    /\ arg.fn = "validate_attachments"
    /\ Apply(validate_attachments(arg.files))

ApplyParseScheduleDatetime ==
    /\ arg.fn = "parse_schedule_datetime"
    /\ Apply(parse_schedule_datetime(arg.schedule, arg.now))

NextValidators ==
    ApplyNormalizeEmailList \/ ApplyValidateAttachments \/ ApplyParseScheduleDatetime

SpecValidators == InitValidators /\ [][NextValidators]_vars

----------------------------------------------------------------------------
(* Properties *)

C1_Whitelist == {408, 425, 429, 500, 502, 503, 504}

Whitelisted(seen) == ~seen.exc /\ seen.status \in C1_Whitelist

Finished == caller = "direct" /\ pc = "done" /\ replies # <<>>

\* C1: with max_retries = N, when every response has a whitelisted status the
\* client sends exactly N + 1 requests and then fails with the last response's
\* status; a response with any other status >= 400 ends the call at that attempt
\* with that status and no further request is sent.
C1_RetryOnlyWhitelist ==
    caller = "direct" =>
        /\ (\A i \in 1..Len(replies) : Whitelisted(replies[i])) =>
              /\ Len(replies) <= max_retries + 1
              /\ pc = "request" => Len(replies) <= max_retries
              /\ Finished =>
                    /\ Len(replies) = max_retries + 1
                    /\ outcome.kind = "raised"
                    /\ outcome.exc = "BlastengineHttpError"
                    /\ outcome.status_code = <<replies[Len(replies)].status>>
        /\ \A i \in 1..Len(replies) :
              (~replies[i].exc /\ replies[i].status >= 400
                   /\ replies[i].status \notin C1_Whitelist) =>
                  /\ i = Len(replies)
                  /\ pc = "done"
                  /\ outcome.kind = "raised"
                  /\ outcome.status_code = <<replies[i].status>>

C1_Witness ==
    /\ Finished /\ max_retries = 2 /\ Len(replies) = 3
    /\ replies[1] = [exc |-> FALSE, status |-> 429]
    /\ replies[2] = [exc |-> FALSE, status |-> 425]
    /\ replies[3] = [exc |-> FALSE, status |-> 503]
    /\ outcome.status_code = <<503>>

\* C2: the delay slept after attempt k (from 0) is 2^k, whatever made the attempt
\* fail (retryable status or transport exception); one delay is slept after each
\* attempt that is retried and none after the attempt that ends the call.
C2_BackoffDoubles ==
    caller = "direct" =>
        /\ \A i \in 1..Len(sleeps) : sleeps[i] = 2 ^ (i - 1)
        /\ pc = "request" => Len(sleeps) = Len(replies)
        /\ Finished => Len(sleeps) = Len(replies) - 1

C2_Witness ==
    /\ Finished /\ sleeps = <<1, 2>>
    /\ replies[1].exc /\ ~replies[2].exc /\ Len(replies) = 3

\* C3: a transport failure at attempt index k < max_retries is followed by another
\* attempt; at attempt index max_retries it ends the call with a raised
\* BlastengineHttpError whose status_code is None, and no response is returned.
C3_TransportFailure ==
    caller = "direct" =>
        \A i \in 1..Len(replies) :
            replies[i].exc =>
                /\ i <= max_retries => (i < Len(replies) \/ pc = "request")
                /\ i = max_retries + 1 =>
                      /\ pc = "done"
                      /\ i = Len(replies)
                      /\ outcome.kind = "raised"
                      /\ outcome.exc = "BlastengineHttpError"
                      /\ outcome.status_code = <<>>

C3_Witness ==
    /\ Finished /\ max_retries = 2 /\ Len(replies) = 3
    /\ replies[1].exc /\ replies[3].exc
    /\ outcome.kind = "raised" /\ outcome.status_code = <<>>

\* the n-th request of a bulk invocation is the one of this step for delivery id
IsCreate(r) == r.method = "POST" /\ r.path = "/deliveries/bulk/begin" /\ r.id = <<>>

IsUpdate(r, id) == r.method = "PUT" /\ r.path = "/deliveries/bulk/update/" /\ r.id = id

IsCommit(r, id) == r.method = "PATCH" /\ r.path = "/deliveries/bulk/commit/" /\ r.id = id

\* C4: in a bulk invocation the first remote operation is the creation, the second
\* the update, the third the commit and there is no fourth; an operation is issued
\* only when the one before it returned, so a failed step is the last one; update
\* and commit carry the delivery id the creation returned; the invocation succeeds
\* only after all three.
C4_BulkOrder ==
    caller = "bulk" =>
        /\ Len(calls) <= 3
        /\ Len(results) = IF pc = "request" THEN Len(calls) - 1 ELSE Len(calls)
        /\ \A i \in 1..Len(results) : results[i].kind # "returned" => i = Len(calls)
        /\ Len(calls) >= 1 => IsCreate(calls[1])
        /\ Len(calls) >= 2 =>
              /\ results[1].kind = "returned" /\ results[1].value # <<>>
              /\ IsUpdate(calls[2], results[1].value)
        /\ Len(calls) >= 3 =>
              /\ results[2].kind = "returned"
              /\ IsCommit(calls[3], results[1].value)
        /\ inv.result.status = "ok" =>
              Len(calls) = 3 /\ \A i \in 1..3 : results[i].kind = "returned"

C4_Witness ==
    /\ caller = "bulk" /\ pc = "done" /\ inv.result.status = "ok"
    /\ Len(calls) = 3 /\ Len(results) = 3
    /\ results[1].value = Word("7", 1)
    /\ results[3].value = Word("D1", 2)
    /\ calls[3].id = Word("7", 1)
    /\ calls[3].body.reservation_time # <<>>

\* the cases in which a local check of both tools fails
LocalFailures ==
    {"missing_login_id", "missing_api_key", "missing_subject", "missing_body",
     "missing_from", "recipient_without_at", "recipient_with_two_at",
     "recipient_without_dot", "recipient_without_local", "no_recipients",
     "blank_recipients", "too_many_recipients", "disallowed_extension",
     "oversized_attachments", "too_many_attachments", "attachment_without_size"}

\* the cases in which a local check of the transactional tool fails; it is the
\* tool that checks the syntax of the From address
TransactionalFailures ==
    LocalFailures \cup {"too_many_cc", "malformed_bcc", "headers_not_json",
                        "headers_of_wrong_type", "malformed_from"}

\* the cases in which a local check of the bulk tool fails
BulkFailures ==
    LocalFailures \cup {"too_many_recipients_with_csv", "malformed_csv_address",
                        "unreadable_csv", "schedule_now", "schedule_past",
                        "schedule_malformed"}

FailsLocally ==
    \/ inv.tool = "transactional" /\ inv.case \in TransactionalFailures
    \/ inv.tool = "bulk" /\ inv.case \in BulkFailures

\* C5: an invocation of either tool whose parameters fail a local check (credentials,
\* subject, body, From address, address syntax, number of recipients, attachment
\* extension, size or number, schedule time) sends no HTTP request, retries nothing
\* and ends with the error result.
C5_LocalFailureSendsNothing ==
    FailsLocally =>
        /\ pc = "done"
        /\ calls = <<>> /\ replies = <<>> /\ sleeps = <<>> /\ attempt = 0
        /\ inv.result = HandleError

C5_Witness ==
    /\ inv.tool = "bulk" /\ inv.case = "schedule_past"
    /\ pc = "done" /\ calls = <<>> /\ inv.failure = "schedule_at"

\* C6: when a send/create operation has finished, however it ended, no attachment
\* handle it opened is still open.
C6_HandlesClosed ==
    (caller = "direct" /\ pc = "done") => \A i \in 1..Len(handles) : handles[i] # "open"

HasBearerSecret(t) ==
    \E i \in 1..Len(t) :
        /\ i + 2 <= Len(t)
        /\ IsBearerWord(t[i]) /\ t[i + 1].k = "space"
        /\ t[i + 2].k \in {"alnum", "b64"} /\ t[i + 2].n >= 20

\* a text as _sanitize_for_log leaves it: no bearer token, no run of 32 or more
\* alphanumerics, at most 200 characters before the truncation mark
Clean(t) ==
    /\ \A i \in 1..Len(t) : ~(t[i].k = "alnum" /\ t[i].n >= 32)
    /\ ~HasBearerSecret(t)
    /\ TextLen(t) <= 200 + 15

\* C7: on every failure path of the client the remote text in the raised error's
\* message and body and in the client's error log has been through
\* _sanitize_for_log.
C7_RemoteTextSanitized ==
    caller = "direct" =>
        /\ \A i \in 1..Len(outcome.message.parts) : Clean(outcome.message.parts[i])
        /\ Clean(outcome.body)
        /\ \A i \in 1..Len(log) : \A j \in 1..Len(log[i].parts) : Clean(log[i].parts[j])

Masked(t) == \E i \in 1..Len(t) : t[i].w = "***"

C7_Witness ==
    /\ Finished /\ outcome.kind = "raised" /\ outcome.message.via = "raw"
    /\ Masked(outcome.message.parts[1]) /\ Masked(outcome.body)
    /\ log # <<>> /\ Masked(log[1].parts[1])

\* C9: send_transactional_email, create_bulk_delivery and commit_bulk_delivery end
\* either by returning a delivery id or by raising BlastengineHttpError; after a
\* final response with a success status that is the error carrying that status.
C9_MalformedResponseRaisesHttpError ==
    (Finished /\ op # "update_bulk_delivery") =>
        \/ outcome.kind = "returned" /\ outcome.value # <<>>
        \/ /\ outcome.kind = "raised"
           /\ outcome.exc = "BlastengineHttpError"
           /\ (~replies[Len(replies)].exc /\ replies[Len(replies)].status < 400)
                 => outcome.status_code = <<replies[Len(replies)].status>>

IdKeys == <<"delivery_id", "deliveryId", "id">>

ErrKeys == <<"message", "error", "error_message", "errors">>

IsObject(response) == response.json_ok /\ response.data.t = "obj"

Present(v) == v.t \notin {"absent", "null"}

\* C8 (as stated): for a success response whose JSON object holds delivery_id,
\* deliveryId or id, _extract_delivery_id returns the value of the first of
\* these fields that is present, as a string, whatever that value is.
C8_FirstPresentIdWins ==
    (pc = "ret" /\ IsObject(arg)) =>
        \A i \in 1..3 :
            (/\ Present(arg.data.f[IdKeys[i]])
             /\ \A j \in 1..(i - 1) : ~Present(arg.data.f[IdKeys[j]]))
            => ret = Returned(Str(arg.data.f[IdKeys[i]]))

\* C8 (amended): for a success response whose JSON object holds a truthy
\* (non-null, non-zero, non-empty) value under delivery_id, deliveryId or id,
\* _extract_delivery_id returns str() of the first truthy one in the order
\* delivery_id, deliveryId, id; a field present with a falsy value is skipped.
C8_FirstTruthyIdWins ==
    (pc = "ret" /\ IsObject(arg)) =>
        \A i \in 1..3 :
            (/\ Truthy(arg.data.f[IdKeys[i]])
             /\ \A j \in 1..(i - 1) : ~Truthy(arg.data.f[IdKeys[j]]))
            => ret = Returned(Str(arg.data.f[IdKeys[i]]))

C8_Witness ==
    /\ pc = "ret" /\ IsObject(arg)
    /\ arg.data.f["delivery_id"] = JInt(0)
    /\ arg.data.f["deliveryId"] = JInt(8)
    /\ arg.data.f["id"] = JStr(Word("D3", 2))
    /\ ret = Returned(Word("8", 1))

MapYields(data) ==
    LET em == data.f["error_messages"]
    IN  /\ em.t = "dict"
        /\ \E i \in 1..Len(em.items) :
              \/ em.items[i].v.t = "str"
              \/ em.items[i].v.t = "list" /\ em.items[i].v.items # <<>>

HasString(data) ==
    \E k \in {"message", "error", "error_message"} : data.f[k].t = "str" /\ data.f[k].s # <<>>

HasList(data) ==
    \E i \in 1..4 : data.f[ErrKeys[i]].t = "list" /\ data.f[ErrKeys[i]].items # <<>>

ObjectYields(v) ==
    /\ v.t = "dict"
    /\ \E i \in 1..Len(v.items) : i <= ErrorPartLimit /\ v.items[i].v.t \in {"str", "list"}

\* C10 (as stated): the shape used is the first one present in the order error map,
\* single message/error/error_message string, list of errors, nested object; a later
\* shape is used only when no earlier shape yields text.
C10_ShapeOrderDecides ==
    (pc = "ret" /\ IsObject(arg)) =>
        /\ MapYields(arg.data) => ret.via = "map"
        /\ ret.via = "string" => ~MapYields(arg.data)
        /\ ret.via = "list" => ~MapYields(arg.data) /\ ~HasString(arg.data)
        /\ ret.via = "object" =>
              ~MapYields(arg.data) /\ ~HasString(arg.data) /\ ~HasList(arg.data)

ShapeOf(v) ==
    CASE v.t = "str" -> "string"
      [] v.t = "list" -> "list"
      [] ObjectYields(v) -> "object"
      [] OTHER -> "raw"

\* C10 (amended): the error_messages map comes first when it yields text; otherwise
\* one value is selected, the first truthy one among message, error, error_message,
\* errors in this key order (the errors value when none is truthy), and the type of
\* that value alone decides the shape: string, list, nested object with string or
\* list entries, else the raw-text fallback.
C10_KeyOrderDecides ==
    (pc = "ret" /\ IsObject(arg)) =>
        /\ MapYields(arg.data) => ret.via = "map"
        /\ ~MapYields(arg.data) =>
              /\ \A i \in 1..4 :
                    (/\ Truthy(arg.data.f[ErrKeys[i]])
                     /\ \A j \in 1..(i - 1) : ~Truthy(arg.data.f[ErrKeys[j]]))
                    => ret.via = ShapeOf(arg.data.f[ErrKeys[i]])
              /\ (\A i \in 1..4 : ~Truthy(arg.data.f[ErrKeys[i]]))
                    => ret.via = ShapeOf(arg.data.f["errors"])

C10_Witness ==
    /\ pc = "ret" /\ IsObject(arg) /\ ~MapYields(arg.data)
    /\ arg.data.f["message"].t = "list"
    /\ arg.data.f["error"] = JStr(Word("err", 3))
    /\ ret.via = "list"
    /\ ret.parts = <<Word("l1", 2)>>

\* the value the message is taken from when the error map yields nothing
SelectedValue(data) ==
    IF \E i \in 1..4 : Truthy(data.f[ErrKeys[i]])
    THEN data.f[ErrKeys[CHOOSE i \in 1..4 :
                           /\ Truthy(data.f[ErrKeys[i]])
                           /\ \A j \in 1..(i - 1) : ~Truthy(data.f[ErrKeys[j]])]]
    ELSE data.f["errors"]

\* no structured shape of the body yields an error message
NoShapeYields(response) ==
    \/ ~IsObject(response)
    \/ ~MapYields(response.data) /\ ShapeOf(SelectedValue(response.data)) = "raw"

\* the first 500 characters of the text, with secrets masked and cut to the log length
RedactedHead(text) == _sanitize_for_log(Take(text, 500))

\* C11 (as stated): the message always holds the response status; when no structured
\* shape yields a message it is the redacted first 500 characters of the raw text;
\* when the body cannot be parsed as JSON it is the generic status-only message.
C11_UnparseableIsStatusOnly ==
    pc = "ret" =>
        /\ ret.status = <<arg.status_code>>
        /\ (NoShapeYields(arg) /\ arg.json_ok) =>
              ret.via = "raw" /\ ret.parts = <<RedactedHead(arg.text)>>
        /\ ~arg.json_ok => ret.via = "status_only"

\* C11 (amended): the message always holds the response status; when no structured
\* shape yields a message, which includes every body that is not a JSON object, it
\* is the redacted first 500 characters of the raw text when that text is not
\* empty, and the generic status-only message exactly when the text is empty.
C11_RawTextThenStatusOnly ==
    pc = "ret" =>
        /\ ret.status = <<arg.status_code>>
        /\ ret.via \in {"raw", "status_only"} <=> NoShapeYields(arg)
        /\ NoShapeYields(arg) =>
              IF arg.text # <<>>
              THEN ret.via = "raw" /\ ret.parts = <<RedactedHead(arg.text)>>
              ELSE ret.via = "status_only" /\ ret.parts = <<>>

C11_Witness ==
    /\ pc = "ret" /\ ~arg.json_ok /\ arg.text = TxtSecrets
    /\ ret.via = "raw" /\ ret.status = <<503>>
    /\ TextLen(ret.parts[1]) = 56
    /\ ret.parts[1][25] = Tok("k40", 8, "alnum")

\* the MIME type inferred from a file extension, when there is one
KnownMime(ext) ==
    CASE Lower(ext) = <<".", "p", "d", "f">> -> <<"application/pdf">>
      [] Lower(ext) = <<".", "t", "x", "t">> -> <<"text/plain">>
      [] OTHER -> <<>>

\* C12: the request of send_transactional_email and of create_bulk_delivery has a
\* JSON body without file parts exactly when the attachment list is empty; with
\* attachments it is multipart: first the JSON part named payload.json, then one
\* part per attachment in attachment order, each with the MIME type inferred from
\* its name, or application/octet-stream when none is inferred.
C12_JsonOrMultipart ==
    (caller = "direct" /\ TakesFiles(op) /\ calls # <<>>) =>
        LET body == calls[1].body
            files == inv.attachments
        IN  /\ body.kind = "json" <=> files = <<>>
            /\ body.payload
            /\ body.kind = "json" => body.files = <<>>
            /\ files # <<>> =>
                  /\ body.kind = "multipart"
                  /\ Len(body.files) = Len(files) + 1
                  /\ body.files[1].filename = "payload.json"
                  /\ body.files[1].mime = "application/json"
                  /\ \A i \in 1..Len(files) :
                        /\ body.files[i + 1].field = "file"
                        /\ body.files[i + 1].filename = files[i].name
                        /\ body.files[i + 1].mime =
                              IF KnownMime(files[i].ext) # <<>>
                              THEN KnownMime(files[i].ext)[1]
                              ELSE "application/octet-stream"

C12_Witness ==
    /\ caller = "direct" /\ op = "create_bulk_delivery" /\ pc = "done"
    /\ inv.attachments = <<F1, F2>>
    /\ calls[1].body.kind = "multipart"
    /\ calls[1].body.files[2].mime = "application/pdf"
    /\ calls[1].body.files[3].mime = "application/octet-stream"

\* the parameters the bulk tool was invoked with
BulkParams == (CHOOSE c \in BulkCases : c.name = inv.case).params

\* the user supplied a schedule_at that is a well-formed time after now
SuppliedFutureSchedule(p) ==
    /\ p.schedule_at # <<>>
    /\ p.schedule_at[1].kind = "time"
    /\ p.schedule_at[1].t - (IF p.schedule_at[1].tz = "+09:00" THEN 9 ELSE 0) > p.now

\* C13: the commit of a bulk invocation is one PATCH for the created delivery: to
\* /deliveries/bulk/commit/{id} with the schedule as reservation_time when a
\* schedule is passed, to /deliveries/bulk/commit/{id}/immediate without a body
\* when none is; the tool passes the schedule exactly when the user supplied a
\* schedule_at that is a valid future time, and passes it as the user wrote it.
C13_CommitScheduledOrImmediate ==
    (caller = "bulk" /\ Len(calls) = 3) =>
        LET commit == calls[3]
        IN  /\ commit.method = "PATCH"
            /\ commit.path = "/deliveries/bulk/commit/"
            /\ commit.id = results[1].value
            /\ inv.schedule_at # <<>> =>
                  /\ commit.suffix = ""
                  /\ commit.body.kind = "json"
                  /\ commit.body.reservation_time = inv.schedule_at
            /\ inv.schedule_at = <<>> =>
                  /\ commit.suffix = "/immediate"
                  /\ commit.body.kind = "none"
                  /\ commit.body.reservation_time = <<>>
            /\ inv.schedule_at # <<>> <=> SuppliedFutureSchedule(BulkParams)
            /\ inv.schedule_at # <<>> => inv.schedule_at = BulkParams.schedule_at

C13_Witness ==
    /\ caller = "bulk" /\ pc = "done" /\ Len(calls) = 3
    /\ inv.case = "valid_scheduled_offset"
    /\ calls[3].suffix = ""
    /\ calls[3].body.reservation_time = <<Schedule("time", 30, "+09:00")>>
    /\ outcome.kind = "returned"

\* C14: update_bulk_delivery issues one PUT /deliveries/bulk/update/{id} whose "to"
\* list is the first min(len(recipients), 50) recipients in their given order; the
\* recipients after the 50th are in no request, and the body holds the "to" list
\* only, not the payload.
C14_UpdateSendsFirstFifty ==
    (caller = "direct" /\ op = "update_bulk_delivery") =>
        /\ Len(calls) = 1
        /\ calls[1].method = "PUT"
        /\ calls[1].path = "/deliveries/bulk/update/"
        /\ calls[1].id = inv.delivery_id
        /\ calls[1].suffix = ""
        /\ calls[1].body.kind = "json"
        /\ ~calls[1].body.payload
        /\ calls[1].body.files = <<>>
        /\ calls[1].body.reservation_time = <<>>
        /\ Len(calls[1].body.to) = (IF Len(inv.recipients) < 50 THEN Len(inv.recipients) ELSE 50)
        /\ \A i \in 1..Len(calls[1].body.to) : calls[1].body.to[i] = inv.recipients[i]

C14_Witness ==
    /\ caller = "direct" /\ op = "update_bulk_delivery" /\ pc = "done"
    /\ outcome.kind = "returned"
    /\ Len(inv.recipients) = 59
    /\ Len(calls[1].body.to) = 50
    /\ calls[1].body.to[50] = Address(50)

\* C15: the bearer token of a client is the token derived from its login_id and
\* api_key at construction (base64 of the hex SHA-256 of their concatenation), no
\* step of any operation changes it, and every HTTP request sent, retries
\* included, carries Authorization: Bearer <that token>.
C15_BearerTokenOnEveryRequest ==
    /\ [](client.built =>
            /\ client._bearer_token = Base64(Sha256Hex(client.login_id \o client.api_key))
            /\ Len(sent) >= Len(results) /\ Len(sent) >= Len(replies)
            /\ \A i \in 1..Len(sent) :
                  sent[i].Authorization = <<"Bearer", client._bearer_token>>)
    /\ [][pc # "idle" => client' = client]_vars

C15_Witness ==
    /\ caller = "direct" /\ op = "commit_bulk_delivery" /\ pc = "done"
    /\ client.login_id = <<"c">> /\ client.api_key = <<"a", "b">>
    /\ Len(sent) = 3 /\ Len(calls) = 1
    /\ sent[3].Authorization = <<"Bearer", Base64(Sha256Hex(<<"c", "a", "b">>))>>
    /\ sent[3].Authorization # <<"Bearer", Base64(Sha256Hex(<<"a", "b", "c">>))>>

\* the text holds all 40 (or more) characters of an alphanumeric run spelled w
HoldsRun(t, w) == \E j \in 1..Len(t) : t[j].k = "alnum" /\ t[j].w = w /\ t[j].n >= 40

LongRuns(t) == {i \in 1..Len(t) : t[i].k = "alnum" /\ t[i].n >= 40}

\* C16: whatever alphanumeric run of 40 or more characters the input of
\* _sanitize_for_log holds, at whatever position, the output does not hold it,
\* truncated or not.
C16_NoLongTokenSurvives ==
    pc = "ret" =>
        /\ \A i \in LongRuns(arg) :
              ~HoldsRun(ret, arg[i].w) /\ ~HoldsRun(ret, BearerSpelling(arg[i].w))
        /\ LongRuns(ret) = {}

Truncated(t) == t # <<>> /\ t[Len(t)] = Sep("... (truncated)", 15)[1]

C16_Witness ==
    /\ pc = "ret"
    /\ arg = Chatter(12) \o Word("key", 3) \o Sep("=", 1) \o Secret40
                 \o Sep("=", 1) \o Chatter(4)
    /\ LongRuns(arg) = {15}
    /\ TextLen(Take(arg, 200)) = 200 /\ Take(arg, 200)[15] = Tok("k40", 10, "alnum")
    /\ ret[15] = Tok("***", 3, "other")
    /\ Truncated(ret) /\ TextLen(ret) = 215

\* two strings that differ at most in the case of their letters
SameUpToCase(a, b) ==
    /\ Len(a) = Len(b)
    /\ \A k \in 1..Len(a) :
          \/ a[k] = b[k]
          \/ \E j \in 1..26 : {a[k], b[k]} = {UpperCase[j], LowerCase[j]}

ValidPieces ==
    {<<"a", "@", "b", ".", "c", "o", "m">>, <<"A", "@", "b", ".", "C", "O", "M">>,
     <<"c", "@", "d", ".", "c", "o", "m">>, <<"E", "@", "F", ".", "C", "O", "M">>}

\* the pieces that are not empty and follow no piece equal to them up to case
FirstSpellings(pieces) ==
    {i \in 1..Len(pieces) :
        pieces[i] # <<>> /\ \A j \in 1..(i - 1) : ~SameUpToCase(pieces[j], pieces[i])}

ExampleText ==
    <<"a", "@", "b", ".", "c", "o", "m", ",", " ", "c", "@", "d", ".", "c", "o", "m", "\n",
      "E", "@", "F", ".", "C", "O", "M">>

\* C17: normalize_email_list returns the trimmed, non-empty pieces between the
\* commas and newlines of its input, each at its first occurrence and in its first
\* spelling, pieces equal up to case counting as one (it raises when a piece is no
\* address); the result holds no two addresses equal up to case, and the function
\* maps its own result to itself.
C17_NormalizeSplitsAndDedupes ==
    (pc = "ret" /\ arg.fn = "normalize_email_list") =>
        /\ ret.ok <=> \A i \in 1..Len(arg.pieces) : arg.pieces[i] \in ValidPieces \cup {<<>>}
        /\ ret.ok =>
              /\ ret.emails = Pick(arg.pieces, FirstSpellings(arg.pieces))
              /\ \A i, j \in 1..Len(ret.emails) :
                    SameUpToCase(ret.emails[i], ret.emails[j]) => i = j
              /\ normalize_email_list(RawList(ret.emails)) = ret
        /\ normalize_email_list(RawStr(ExampleText)).emails =
              <<<<"a", "@", "b", ".", "c", "o", "m">>, <<"c", "@", "d", ".", "c", "o", "m">>,
                <<"E", "@", "F", ".", "C", "O", "M">>>>

C17_Witness ==
    /\ pc = "ret" /\ arg.fn = "normalize_email_list"
    /\ arg.raw_value = RawStr(<<" ", "A", "@", "b", ".", "C", "O", "M", "\n",
                               "c", "@", "d", ".", "c", "o", "m", " ", ",", " ",
                               "a", "@", "b", ".", "c", "o", "m", " ">>)
    /\ ret.ok
    /\ ret.emails = <<<<"A", "@", "b", ".", "C", "O", "M">>, <<"c", "@", "d", ".", "c", "o", "m">>>>

\* the extension is .exe in some spelling
IsExe(ext) ==
    /\ Len(ext) = 4 /\ ext[1] = "."
    /\ ext[2] \in {"e", "E"} /\ ext[3] \in {"x", "X"} /\ ext[4] \in {"e", "E"}

RECURSIVE SizeSum(_, _)
SizeSum(files, i) == IF i > Len(files) THEN 0 ELSE files[i].size + SizeSum(files, i + 1)

\* a set the other checks have nothing against: at most ten files, all on disk,
\* none with an extension other than .txt
Unobjectionable(files) ==
    /\ Len(files) <= 10
    /\ \A i \in 1..Len(files) : files[i].size >= 0 /\ files[i].ext = <<".", "t", "x", "t">>

\* C18: validate_attachments raises for every set of existing files whose sizes
\* add up to more than 1,000,000 bytes, whatever the single sizes, and for every
\* set with a file whose extension is .exe in any spelling, whatever its size; a
\* set of exactly 1,000,000 bytes that is otherwise unobjectionable passes.
C18_TotalSizeAndExeRejected ==
    (pc = "ret" /\ arg.fn = "validate_attachments") =>
        /\ ((\A i \in 1..Len(arg.files) : arg.files[i].size >= 0)
               /\ SizeSum(arg.files, 1) > 1000000) => ~ret
        /\ (\E i \in 1..Len(arg.files) : IsExe(arg.files[i].ext)) => ~ret
        /\ (Unobjectionable(arg.files) /\ SizeSum(arg.files, 1) <= 1000000) => ret

C18_Witness ==
    /\ pc = "ret" /\ arg.fn = "validate_attachments"
    /\ Len(arg.files) = 2
    /\ arg.files[1].size = 500000 /\ arg.files[2].size = 500001
    /\ Unobjectionable(arg.files)
    /\ ret = FALSE

\* the instant, in UTC hours, that a written time names; one without an offset is
\* read as UTC
UtcInstant(schedule) ==
    CASE schedule.tz \in {"naive", "+00:00"} -> schedule.t
      [] schedule.tz = "+09:00" -> schedule.t - 9
      [] schedule.tz = "-05:00" -> schedule.t + 5

\* C19: parse_schedule_datetime raises for every written time whose instant is the
\* current time or earlier and returns the instant of every later one; a time
\* written without an offset is compared as a UTC time.
C19_OnlyStrictlyFuture ==
    (pc = "ret" /\ arg.fn = "parse_schedule_datetime" /\ arg.schedule # <<>>
        /\ arg.schedule[1].kind = "time") =>
        /\ ret.ok <=> UtcInstant(arg.schedule[1]) > arg.now
        /\ ret.ok => ret.value = <<UtcInstant(arg.schedule[1])>>
        /\ arg.schedule[1].tz = "naive" => (ret.ok <=> arg.schedule[1].t > arg.now)

C19_Witness ==
    /\ pc = "ret" /\ arg.fn = "parse_schedule_datetime"
    /\ arg.schedule = <<Schedule("time", 25, "naive")>> /\ arg.now = 25
    /\ ~ret.ok

\* C20: append_bulk_recipients sends one POST /deliveries/{id}/emails per
\* recipient, in the order of the list, each with that one address; it returns
\* after as many logical calls as there are recipients, and when the call for a
\* recipient fails it raises with no call made for the recipients after it.
C20_AppendOneCallPerAddress ==
    (caller = "direct" /\ op = "append_bulk_recipients") =>
        /\ Len(calls) <= Len(inv.recipients)
        /\ \A k \in 1..Len(calls) :
              /\ calls[k].method = "POST"
              /\ calls[k].path = "/deliveries/" /\ calls[k].id = inv.delivery_id
              /\ calls[k].suffix = "/emails"
              /\ calls[k].body.kind = "json"
              /\ calls[k].body.email = <<inv.recipients[k]>>
              /\ calls[k].body.to = <<>>
        /\ \A k \in 1..(Len(results) - 1) : results[k].kind = "returned"
        /\ pc = "done" =>
              /\ Len(results) = Len(calls)
              /\ outcome.kind = "returned" =>
                    /\ Len(calls) = Len(inv.recipients)
                    /\ \A k \in 1..Len(results) : results[k].kind = "returned"
              /\ outcome.kind = "raised" =>
                    /\ calls # <<>>
                    /\ results[Len(calls)] = outcome
                    /\ outcome.exc = "BlastengineHttpError"

C20_Witness ==
    /\ caller = "direct" /\ op = "append_bulk_recipients" /\ pc = "done"
    /\ inv.recipients = <<Address(2), Address(1), Address(1)>>
    /\ Len(calls) = 2
    /\ calls[1].body.email = <<Address(2)>> /\ calls[2].body.email = <<Address(1)>>
    /\ results[1].kind = "returned" /\ outcome.kind = "raised"

\* a reply that _request answers with `continue` while attempts remain
Retryable(seen) == seen.exc \/ seen.status \in C1_Whitelist

\* C21: whatever the replies, a call of _request sends at most max_retries + 1
\* requests; every reply before the last is a transport failure or a retryable
\* status, and each of them counts against the same budget; a response with a
\* status below 400 ends the call at once with a return; the call ends by
\* returning or by raising BlastengineHttpError from inside the loop, never by
\* the raise after it.
C21_RequestTerminates ==
    caller = "direct" =>
        /\ attempt <= max_retries
        /\ Len(replies) <= max_retries + 1
        /\ pc = "request" => Len(replies) = attempt /\ attempt <= max_retries
        /\ \A i \in 1..Len(replies) :
              /\ (i < Len(replies) \/ pc = "request") => Retryable(replies[i])
              /\ (~replies[i].exc /\ replies[i].status < 400) =>
                    i = Len(replies) /\ pc = "done"
        /\ \A k \in 1..Len(results) : results[k].message.via # "after_loop"
        /\ (Finished /\ op \in {"update_bulk_delivery", "append_bulk_recipients"}) =>
              \/ outcome.kind = "returned" /\ replies[Len(replies)].status < 400
              \/ outcome.kind = "raised" /\ outcome.exc = "BlastengineHttpError"

C21_Witness ==
    /\ Finished /\ op = "update_bulk_delivery" /\ max_retries = 2
    /\ replies = <<[exc |-> TRUE, status |-> 0], [exc |-> FALSE, status |-> 503],
                  [exc |-> FALSE, status |-> 200]>>
    /\ outcome.kind = "returned"

\* the recipients the parameters of a bulk case name, duplicates and blanks removed
NamedRecipients(case) ==
    CASE case = "valid_most_recipients" -> Addresses(50)
      [] case = "valid_csv" -> <<Address(1), Address(2), Address(3)>>
      [] case = "valid_two_recipients" -> <<Address(1), Address(2)>>
      [] case = "valid_duplicates" -> <<Address(1), Address(2), Address(3)>>
      [] OTHER -> <<Address(1)>>

\* C22: a bulk invocation that reaches the remote side has between 1 and 50
\* normalized recipients; the "to" list of its update is that whole list, in order,
\* and the recipient_count it reports on success is the length of the list sent.
\* More than 50 recipients end the invocation before any request.
C22_NoRecipientDropped ==
    caller = "bulk" =>
        /\ inv.case \in {"too_many_recipients", "too_many_recipients_with_csv"} =>
              calls = <<>> /\ (pc = "done" => inv.result.status = "error")
        /\ calls # <<>> =>
              /\ inv.recipients = NamedRecipients(inv.case)
              /\ Len(inv.recipients) \in 1..50
        /\ Len(calls) >= 2 => calls[2].body.to = NamedRecipients(inv.case)
        /\ (pc = "done" /\ inv.result.status = "ok") =>
              /\ Len(calls) = 3
              /\ inv.result.messages[2].recipient_count = Len(calls[2].body.to)

C22_Witness ==
    /\ caller = "bulk" /\ pc = "done" /\ inv.case = "valid_most_recipients"
    /\ inv.result.status = "ok"
    /\ Len(calls[2].body.to) = 50 /\ calls[2].body.to[50] = Address(50)
    /\ inv.result.messages[2].recipient_count = 50

ToolDone == caller \in {"bulk", "transactional"} /\ pc = "done"

\* C23: a finished tool invocation has a result, whatever was raised on the way
\* (ValueError of a local check, OSError of an attachment that cannot be opened,
\* BlastengineHttpError, AttributeError of a malformed success response): one text
\* message after a failure, a text message and a JSON message with the delivery id
\* after a success; and the cleanup has run.  Before it finishes it has no result.
C23_ToolNeverRaises ==
    /\ ToolDone =>
          /\ inv.cleaned
          /\ inv.result.status \in {"ok", "error"}
          /\ inv.result.status = "error" <=> outcome.kind = "raised"
          /\ inv.result.status = "error" =>
                /\ Len(inv.result.messages) = 1
                /\ inv.result.messages[1].type = "text"
          /\ inv.result.status = "ok" =>
                /\ outcome.kind = "returned" /\ outcome.value # <<>>
                /\ op = (IF caller = "bulk" THEN "commit_bulk_delivery"
                         ELSE "send_transactional_email")
                /\ Len(inv.result.messages) = 2
                /\ inv.result.messages[1].type = "text"
                /\ inv.result.messages[2].type = "json"
                /\ inv.result.messages[2].delivery_id = outcome.value
    /\ (caller \in {"bulk", "transactional"} /\ pc # "done") =>
          inv.result = NoResult /\ ~inv.cleaned

C23_Witness ==
    /\ ToolDone /\ caller = "bulk" /\ Len(calls) = 3
    /\ outcome.kind = "raised" /\ outcome.exc = "AttributeError"
    /\ inv.result.status = "error" /\ Len(inv.result.messages) = 1
    /\ inv.cleaned

\* C24 (as stated): no attempt transmits a body whose parts are empty, i.e.
\* every retry of a multipart request sends the JSON part and the attachments
\* with the content of attempt 0.
C24_RetrySendsSameBody ==
    \A i \in 1..Len(sent) : sent[i].parts # "empty"

\* C24 (what the code does): a json= body is sent in full on every attempt, and
\* so is the first encoding of a multipart body; every attempt of a multipart
\* call after one that encoded the body sends empty parts.
C24_OnlyFirstEncodingIsFull ==
    \A i \in 1..Len(sent) :
        /\ sent[i].json => sent[i].parts = "full" /\ ~sent[i].read
        /\ sent[i].parts = "empty" =>
              /\ ~sent[i].json /\ i > 1
              /\ \E j \in 1..(i - 1) : sent[j].read /\ sent[j].parts = "full"
        /\ (pc = "request" /\ calls[Len(calls)].body.kind = "multipart"
              /\ i > Len(sent) - attempt /\ sent[i].parts = "full") =>
              \A j \in (Len(sent) - attempt + 1)..Len(sent) :
                  j # i => sent[j].parts # "full"

C24_Witness ==
    /\ caller = "direct" /\ op = "send_transactional_email" /\ pc = "done"
    /\ Len(sent) = 2 /\ Len(handles) = 2
    /\ replies[1].status = 503 /\ replies[2].status = 200
    /\ sent[1].parts = "full" /\ sent[2].parts = "empty"
    /\ outcome.kind = "returned"

====
